---- MODULE Spec2Model ----
(***************************************************************************)
(* A model of the parallel-malloc allocator: the boundary-tag heap with    *)
(* segregated free lists (naive_malloc.c), the arena registry (arena.c),   *)
(* the per-thread cache (thread_cache.c) and the three public variants     *)
(* naive_malloc / arena_malloc / arena_cached_malloc with their frees.     *)
(*                                                                         *)
(* Memory is a sparse map from byte addresses of 8-byte words to words; a  *)
(* word that was never written reads as 0 (fresh anonymous mappings and    *)
(* fresh program-break memory are zero filled).  Block headers, footers    *)
(* and free-list links are words of this memory, written and read exactly  *)
(* where the C code writes and reads them.                                 *)
(*                                                                         *)
(* size_t and pointer arithmetic is modular.  The code's words are 64 bits *)
(* wide; the model keeps the modular arithmetic but with a modulus of      *)
(* 2^30 (WordModulus), the widest that 32-bit signed integers allow, and   *)
(* places all mappings below 2^30.  Every other constant of the program    *)
(* (chunk size, arena size, cache limits, list counts) has its real value. *)
(***************************************************************************)
EXTENDS Integers, Sequences, FiniteSets, TLC

(* ------------------------------ bounds -------------------------------- *)

\* number of worker threads
NumThreads == 2
\* number of arenas handed to arenas_init (the code passes 10)
NumArenas == 2
\* total number of public calls (alloc or free) made by all threads together
MaxOps == 3

(* ------------------------- program constants -------------------------- *)

NULL == 0
wsize == 8
dsize == 16
min_block_size == 32
CHUNK_SIZE == 4096
ARENA_MAX_SIZE == 134217728
MAXLISTS == 15
MAX_SEGLIST_SEARCH == 15
alloc_mask == 1
prev_alloc_mask == 2
CACHE_MAX_ENTRIES == 8
CACHE_MAX_SIZE == 1048576
RAND_MAX == 2147483647
INT_MAX == 2147483647
INT_MIN == -INT_MAX - 1

\* 2^30: the modulus of size_t / pointer arithmetic in the model (2^64 in the code)
WordModulus == 1073741824

Add(a, b) == (a + b) % WordModulus
Sub(a, b) == (a - b + WordModulus) % WordModulus

(* ------------------------------ memory -------------------------------- *)

\* *(word_t *)a
Rd(m, a) == IF a \in DOMAIN m THEN m[a] ELSE 0
\* *(word_t *)a = v
Wr(m, a, v) == [x \in (DOMAIN m) \cup {a} |-> IF x = a THEN v ELSE m[x]]

\* offsets of the fields of block_t
OffPrev == 8
OffNext == 16

(* ------------------------- short helper functions --------------------- *)

max(x, y) == IF x > y THEN x ELSE y

round_up(size, n) ==
    IF size <= n THEN 2 * n
    ELSE (n * (Add(size, n - 1) \div n)) % WordModulus

\* word | mask for a one-bit mask
OrBit(word, mask) == IF (word \div mask) % 2 = 1 THEN word ELSE word + mask

pack(size, alloc, prev_alloc) ==
    LET w1 == IF alloc THEN OrBit(size, alloc_mask) ELSE size
    IN  IF prev_alloc THEN OrBit(w1, prev_alloc_mask) ELSE w1

extract_size(word) == word - (word % 16)
extract_alloc(word) == word % 2 = 1
extract_prev_alloc(word) == (word \div 2) % 2 = 1

get_size(m, block) == extract_size(Rd(m, block))
get_alloc(m, block) == extract_alloc(Rd(m, block))
get_prev_alloc(m, block) == extract_prev_alloc(Rd(m, block))

payload_to_header(bp) == Sub(bp, wsize)
header_to_payload(block) == Add(block, wsize)
header_to_footer(m, block) == Sub(Add(Add(block, wsize), get_size(m, block)), dsize)
footer_to_header(m, footer) == Sub(Add(footer, wsize), extract_size(Rd(m, footer)))

write_epilogue(m, block, prev_alloc) == Wr(m, block, pack(0, TRUE, prev_alloc))

write_block(m, block, size, alloc, prev_alloc) ==
    IF ~alloc
    THEN LET m1 == Wr(m, block, pack(size, alloc, prev_alloc))
         IN  Wr(m1, header_to_footer(m1, block), pack(size, alloc, prev_alloc))
    ELSE Wr(m, block, pack(size, alloc, prev_alloc))

find_next(m, block) == Add(block, get_size(m, block))
find_prev_footer(block) == Sub(block, wsize)
find_prev(m, block) == footer_to_header(m, find_prev_footer(block))

RECURSIVE ListIndexLoop(_, _)
ListIndexLoop(size, list_ind) ==
    IF size # 0 /\ list_ind < MAXLISTS - 1
    THEN ListIndexLoop(size \div 2, list_ind + 1)
    ELSE list_ind

RECURSIVE UncappedLoop(_, _)
UncappedLoop(size, list_ind) ==
    IF size # 0 THEN UncappedLoop(size \div 2, list_ind + 1) ELSE list_ind

\* a class index without the cap at MAXLISTS - 1
find_list_for_block_uncapped(m, block) == UncappedLoop(get_size(m, block) \div 64, 0)

find_list_for_block(m, block) == ListIndexLoop(get_size(m, block) \div 64, 0)

(* ------------------------- segregated free lists ---------------------- *)
(* The heap operators work on a record hp:                                 *)
(*   mem, seglists, heap_start, heap_end : the heap they read and write    *)
(*   low, size                           : the mapping of the arena        *)
(*   brk                                 : the program break (naive heap)  *)
(*   naive                               : TRUE for the single global heap *)
(*   fault                               : an assert of the code has failed *)

\* add_to_free_list once list_ind and oldStart = seglists[list_ind] are known
AddAtHead(hp, block, list_ind, oldStart) ==
    IF oldStart = block THEN hp
    ELSE IF oldStart = NULL
    THEN [hp EXCEPT !.seglists[list_ind] = block,
                    !.mem = Wr(Wr(@, Add(block, OffPrev), NULL), Add(block, OffNext), NULL)]
    ELSE [hp EXCEPT !.seglists[list_ind] = block,
                    !.mem = Wr(Wr(Wr(@, Add(block, OffNext), oldStart),
                                  Add(oldStart, OffPrev), block),
                               Add(block, OffPrev), NULL)]

add_to_free_list(hp, block) ==
    AddAtHead(hp, block, find_list_for_block(hp.mem, block),
              hp.seglists[find_list_for_block(hp.mem, block)])

\* delete_from_free_list once list_ind and the block's two links are known
Unlink(hp, block, list_ind, next, prev) ==
    IF hp.seglists[list_ind] = NULL THEN hp
    ELSE IF prev # NULL /\ next # NULL
    THEN [hp EXCEPT !.mem = Wr(Wr(Wr(Wr(@, Add(prev, OffNext), next),
                                     Add(next, OffPrev), prev),
                                  Add(block, OffPrev), NULL),
                               Add(block, OffNext), NULL)]
    ELSE IF prev # NULL /\ next = NULL
    THEN [hp EXCEPT !.mem = Wr(@, Add(prev, OffNext), NULL)]
    ELSE IF prev = NULL /\ next # NULL
    THEN [hp EXCEPT !.seglists[list_ind] = next,
                    !.mem = Wr(@, Add(next, OffPrev), NULL)]
    ELSE [hp EXCEPT !.seglists[list_ind] = NULL]

delete_from_free_list(hp, block) ==
    Unlink(hp, block, find_list_for_block(hp.mem, block),
           Rd(hp.mem, Add(block, OffNext)), Rd(hp.mem, Add(block, OffPrev)))

(* ------------------------------ coalescing ---------------------------- *)

\* the rewrite of the following block's prev_alloc bit that ends coalesce_block
CoalesceFinish(hp, block) ==
    [hp |-> [hp EXCEPT !.mem = write_block(@, find_next(@, block),
                                           get_size(@, find_next(@, block)),
                                           get_alloc(@, find_next(@, block)), FALSE)],
     block |-> block]

\* returns [hp, block]
\* the block at header block takes the size size (the merge of coalesce_block)
Merge(hp, block, size, prev_alloc) ==
    CoalesceFinish([hp EXCEPT !.mem = write_block(@, block, size, FALSE, prev_alloc)], block)

\* a merge into the previous block that leaves it at its old size
MergeIntoPrev_short(hp, prev, size) ==
    Merge(hp, prev, get_size(hp.mem, prev), get_prev_alloc(hp.mem, prev))

\* the merge into the previous block, which keeps that block's prev_alloc bit
MergeIntoPrev(hp, prev, size) == Merge(hp, prev, size, get_prev_alloc(hp.mem, prev))

\* the four cases of coalesce_block, with next = find_next(block), prev = find_prev(block)
\* and the sizes read before any write
CoalesceCases(hp, block, next, prev, prevAlloc, nextAlloc, currSize, nextSize, prevSize) ==
    IF prevAlloc /\ nextAlloc THEN [hp |-> hp, block |-> block]
    ELSE IF prevAlloc /\ ~nextAlloc
    THEN Merge(delete_from_free_list(hp, next), block, Add(currSize, nextSize), TRUE)
    ELSE IF ~prevAlloc /\ prev = block
    THEN [hp |-> [hp EXCEPT !.fault = TRUE], block |-> block]
    ELSE IF ~prevAlloc /\ nextAlloc
    THEN MergeIntoPrev(delete_from_free_list(hp, prev), prev, Add(currSize, prevSize))
    ELSE MergeIntoPrev(delete_from_free_list(delete_from_free_list(hp, next), prev), prev,
                       Add(Add(currSize, prevSize), nextSize))

\* returns [hp, block]
coalesce_block(hp, block) ==
    CoalesceCases(hp, block, find_next(hp.mem, block), find_prev(hp.mem, block),
                  get_prev_alloc(hp.mem, block),
                  get_alloc(hp.mem, find_next(hp.mem, block)),
                  get_size(hp.mem, block),
                  get_size(hp.mem, find_next(hp.mem, block)),
                  get_size(hp.mem, find_prev(hp.mem, block)))

(* ---------------------------- heap extension -------------------------- *)

\* extend_arena refusing an extension that ends exactly at low + size
extend_arena_full(hp, length) ==
    LET result == hp.heap_end
        new_end == Add(hp.heap_end, length)
    IN  IF new_end >= hp.low + hp.size
        THEN [hp |-> hp, ret |-> NULL]
        ELSE [hp |-> [hp EXCEPT !.heap_end = new_end], ret |-> result]

\* arena.c: returns [hp, ret]; ret = NULL when the mapping is exhausted
extend_arena(hp, length) ==
    LET result == hp.heap_end
        new_end == Add(hp.heap_end, length)
    IN  IF new_end > hp.low + hp.size
        THEN [hp |-> hp, ret |-> NULL]
        ELSE [hp |-> [hp EXCEPT !.heap_end = new_end], ret |-> result]

\* a coalesced block that is left off the free lists
Listed_skipped(c) == [hp |-> c.hp, block |-> c.block]

\* the block written at the old epilogue, the new epilogue, coalesce and listing
\* c = [hp, block] as coalesce_block returns it: the block is listed
Listed(c) == [hp |-> add_to_free_list(c.hp, c.block), block |-> c.block]

\* the epilogue written behind the block at header block
EpilogueBehind(hp, block) ==
    [hp EXCEPT !.mem = write_epilogue(@, find_next(@, block), FALSE)]

ExtendFinish(hp, bp, size, prev_alloc) ==
    Listed(coalesce_block(
             EpilogueBehind([hp EXCEPT !.mem = write_block(@, payload_to_header(bp), size,
                                                           FALSE, prev_alloc)],
                            payload_to_header(bp)),
             payload_to_header(bp)))

\* returns [hp, block]; block = NULL on failure
\* e = [hp, ret] as extend_arena returns it
ArenaExtended(hp, e, rsize, prev_alloc) ==
    IF e.ret = NULL THEN [hp |-> hp, block |-> NULL]
    ELSE ExtendFinish(e.hp, e.ret, rsize, prev_alloc)

extend_arena_heap(hp, size, prev_alloc) ==
    ArenaExtended(hp, extend_arena(hp, round_up(size, dsize)), round_up(size, dsize),
                  prev_alloc)

\* the data-segment limit at which the OS refuses to move the program break
BrkLimit(hp) == hp.low + hp.size

\* sbrk(incr): returns [hp, ret]; ret = -1 on failure
sbrk(hp, incr) ==
    IF Add(hp.brk, incr) > BrkLimit(hp)
    THEN [hp |-> hp, ret |-> -1]
    ELSE [hp |-> [hp EXCEPT !.brk = Add(@, incr)], ret |-> hp.brk]

\* the naive heap's extension; returns [hp, block]
\* e = [hp, ret] as sbrk returns it
BrkMoved(hp, e, rsize, prev_alloc) ==
    IF e.ret = -1 THEN [hp |-> hp, block |-> NULL]
    ELSE ExtendFinish([e.hp EXCEPT !.heap_end = Add(e.ret, rsize)],
                      e.ret, rsize, prev_alloc)

extend_heap(hp, size, prev_alloc) ==
    BrkMoved(hp, sbrk(hp, round_up(size, dsize)), round_up(size, dsize), prev_alloc)

(* --------------------------- split and search ------------------------- *)

\* the remainder of a split: a free block of size bytes behind the block at header block
Remainder(hp, block, size) ==
    add_to_free_list([hp EXCEPT !.mem = write_block(@, find_next(@, block), size,
                                                    FALSE, TRUE)],
                     find_next(hp.mem, block))

\* split_block once block_size = get_size(block) is known
SplitAt(hp, block, asize, block_size) ==
    IF Sub(block_size, asize) >= min_block_size
    THEN Remainder([hp EXCEPT !.mem = write_block(@, block, asize, TRUE,
                                                  get_prev_alloc(@, block))],
                   block, Sub(block_size, asize))
    ELSE hp

split_block(hp, block, asize) == SplitAt(hp, block, asize, get_size(hp.mem, block))

RECURSIVE FirstFitLoop(_, _, _, _)
FirstFitLoop(m, block, asize, count) ==
    IF block = NULL \/ count + 1 > MAX_SEGLIST_SEARCH THEN NULL
    ELSE IF get_size(m, block) >= asize THEN block
    ELSE FirstFitLoop(m, Rd(m, Add(block, OffNext)), asize, count + 1)

\* a search that takes the first block that fits
search_list_first(m, list_start, asize) == FirstFitLoop(m, list_start, asize, 0)

RECURSIVE SearchLoop(_, _, _, _, _, _)
SearchLoop(m, block, asize, count, best_fit, fit_error) ==
    IF block = NULL \/ count + 1 > MAX_SEGLIST_SEARCH THEN best_fit
    ELSE LET block_size == get_size(m, block)
             next == Rd(m, Add(block, OffNext))
         IN  IF block_size >= asize
             THEN LET take == best_fit = NULL \/ block_size - asize < fit_error
                      bf == IF take THEN block ELSE best_fit
                      fe == IF take THEN block_size - asize ELSE fit_error
                  IN  IF fe = 0 THEN bf
                      ELSE SearchLoop(m, next, asize, count + 1, bf, fe)
             ELSE SearchLoop(m, next, asize, count + 1, best_fit, fit_error)

search_list(m, list_start, asize) ==
    IF list_start = NULL THEN NULL
    ELSE SearchLoop(m, list_start, asize, 0, NULL, asize)

RECURSIVE MinListLoop(_, _)
MinListLoop(size, min_list_ind) ==
    IF size # 0 THEN MinListLoop(size \div 2, min_list_ind + 1) ELSE min_list_ind

\* the smallest list index that can hold a block of asize bytes
MinListInd(asize) ==
    LET i == MinListLoop(asize \div 64, 0)
    IN  IF i > MAXLISTS - 1 THEN MAXLISTS - 1 ELSE i

RECURSIVE FitLoop(_, _, _, _)
FitLoop(hp, asize, list_ind, last) ==
    IF list_ind < MAXLISTS /\ list_ind <= last
    THEN LET block == search_list(hp.mem, hp.seglists[list_ind], asize)
         IN  IF block # NULL THEN block ELSE FitLoop(hp, asize, list_ind + 1, last)
    ELSE NULL

\* arena variants: probes lists min_list_ind and min_list_ind + 1
find_fit(hp, asize) == FitLoop(hp, asize, MinListInd(asize), MinListInd(asize) + 1)

\* naive variant: the loop condition (min_list_ind + SEARCHCOUNT) is always true
naive_find_fit(hp, asize) == FitLoop(hp, asize, MinListInd(asize), MAXLISTS)

(* ------------------------------ _malloc, _free ------------------------ *)

\* mark the block allocated, unlist it, split, propagate; returns [hp, bp]
\* the prev_alloc bit of the block behind the block at header block is set to prev_alloc
Propagate(hp, block, prev_alloc) ==
    [hp EXCEPT !.mem = write_block(@, find_next(@, block),
                                   get_size(@, find_next(@, block)),
                                   get_alloc(@, find_next(@, block)), prev_alloc)]

\* the end of _malloc: the follower learns that the block is allocated
Placed(hp, block) ==
    [hp |-> Propagate(hp, block, TRUE), bp |-> header_to_payload(block)]

Place(hp, block, asize) ==
    Placed(split_block(
             delete_from_free_list(
               [hp EXCEPT !.mem = write_block(@, block, get_size(@, block), TRUE,
                                              get_prev_alloc(@, block))],
               block),
             block, asize),
           block)

\* e = [hp, block] as extend_arena_heap / extend_heap returns it
PlaceExtended(hp, e, asize) ==
    IF e.block = NULL THEN [hp |-> hp, bp |-> NULL] ELSE Place(e.hp, e.block, asize)

\* the heap grows by extendsize; the old epilogue holds the prev_alloc bit
Extend(hp, extendsize, epi_prev_alloc) ==
    IF hp.naive THEN extend_heap(hp, extendsize, epi_prev_alloc)
    ELSE extend_arena_heap(hp, extendsize, epi_prev_alloc)

\* a _malloc that extends the heap whatever find_fit has found
PlaceOrExtend_extending(hp, asize, fit) ==
    PlaceExtended(hp,
                  Extend(hp, max(asize, CHUNK_SIZE),
                         extract_prev_alloc(Rd(hp.mem, Sub(hp.heap_end, 8)))),
                  asize)

\* _malloc once asize and the result fit of find_fit are known
PlaceOrExtend(hp, asize, fit) ==
    IF fit # NULL THEN Place(hp, fit, asize)
    ELSE PlaceExtended(hp,
                       Extend(hp, max(asize, CHUNK_SIZE),
                              extract_prev_alloc(Rd(hp.mem, Sub(hp.heap_end, 8)))),
                       asize)

\* _malloc once asize is known
MallocSized(hp, asize) ==
    PlaceOrExtend(hp, asize,
                  IF hp.naive THEN naive_find_fit(hp, asize) ELSE find_fit(hp, asize))

\* returns [hp, bp]
_malloc(hp, size) ==
    IF size = 0 THEN [hp |-> hp, bp |-> NULL]
    ELSE MallocSized(hp, round_up(Add(size, wsize), dsize))

\* a free that lists the block without coalescing it
FreeBlock_uncoalesced(hp, block) ==
    add_to_free_list([hp EXCEPT !.mem = write_block(@, block, get_size(@, block), FALSE,
                                               get_prev_alloc(@, block))],
                block)

\* mark free, clear the follower's prev_alloc bit, coalesce, list (truly_free's body too)
FreeBlock(hp, block) ==
    Listed(coalesce_block(
             Propagate([hp EXCEPT !.mem = write_block(@, block, get_size(@, block), FALSE,
                                                      get_prev_alloc(@, block))],
                       block, FALSE),
             block)).hp

_free(hp, bp) ==
    IF bp = NULL THEN hp ELSE FreeBlock(hp, payload_to_header(bp))

(* ------------------------------ thread cache -------------------------- *)

Slots == 0 .. CACHE_MAX_ENTRIES - 1

\* a static __thread cache_t before init_tcache: all bytes zero
ZeroCache == [elems |-> [i \in Slots |-> NULL], num_entries |-> 0, total_size |-> 0, front |-> 0]

cache_init(c) ==
    [elems |-> [i \in Slots |-> NULL], num_entries |-> 0, total_size |-> 0,
     front |-> CACHE_MAX_ENTRIES]

RECURSIVE AdvanceFront(_, _)
AdvanceFront(elems, front) ==
    IF front < CACHE_MAX_ENTRIES /\ elems[front] = NULL
    THEN AdvanceFront(elems, front + 1)
    ELSE front

\* a cache_add whose refusal empties the cache
cache_add_reset(c, m, block) ==
    IF c.num_entries = CACHE_MAX_ENTRIES \/ c.total_size + get_size(m, block) > CACHE_MAX_SIZE
    THEN [c |-> cache_init(c), ret |-> FALSE]
    ELSE LET i == CHOOSE j \in Slots :
                      c.elems[j] = NULL /\ \A k \in Slots : k < j => c.elems[k] # NULL
         IN  [c |-> [elems |-> [c.elems EXCEPT ![i] = block],
                     num_entries |-> c.num_entries + 1,
                     total_size |-> c.total_size + get_size(m, block),
                     front |-> IF i < c.front THEN i ELSE c.front],
              ret |-> TRUE]

\* returns [c, ret]
cache_add(c, m, block) ==
    IF c.num_entries = CACHE_MAX_ENTRIES THEN [c |-> c, ret |-> FALSE]
    ELSE LET bsize == get_size(m, block)
         IN  IF c.total_size + bsize > CACHE_MAX_SIZE THEN [c |-> c, ret |-> FALSE]
             ELSE IF \E i \in Slots : c.elems[i] = NULL
             THEN LET i == CHOOSE j \in Slots :
                               c.elems[j] = NULL /\ \A k \in Slots : k < j => c.elems[k] # NULL
                  IN  [c |-> [elems |-> [c.elems EXCEPT ![i] = block],
                              num_entries |-> c.num_entries + 1,
                              total_size |-> c.total_size + bsize,
                              front |-> IF i < c.front THEN i ELSE c.front],
                       ret |-> TRUE]
             ELSE [c |-> c, ret |-> TRUE]

\* an evict that takes the block of the highest occupied slot
cache_evict_last(c, m) ==
    LET top == CHOOSE i \in Slots :
                   c.elems[i] # NULL /\ \A j \in Slots : j > i => c.elems[j] = NULL
        elems == [c.elems EXCEPT ![top] = NULL]
    IN  [c |-> [elems |-> elems,
                num_entries |-> c.num_entries - 1,
                total_size |-> c.total_size - get_size(m, c.elems[top]),
                front |-> AdvanceFront(elems, c.front)],
         ret |-> c.elems[top]]

\* precondition (asserted by the code): c.num_entries > 0; returns [c, ret]
cache_evict(c, m) ==
    LET result == c.elems[c.front]
        elems == [c.elems EXCEPT ![c.front] = NULL]
    IN  [c |-> [elems |-> elems,
                num_entries |-> c.num_entries - 1,
                total_size |-> c.total_size - get_size(m, result),
                front |-> AdvanceFront(elems, c.front)],
         ret |-> result]

RECURSIVE QueryLoop(_, _, _, _)
QueryLoop(c, m, size, i) ==
    IF i >= CACHE_MAX_ENTRIES THEN [c |-> c, ret |-> NULL]
    ELSE IF c.elems[i] = NULL THEN QueryLoop(c, m, size, i + 1)
    ELSE LET b == c.elems[i]
             bsize == get_size(m, b)
             elems == [c.elems EXCEPT ![i] = NULL]
         IN  IF bsize >= size
             THEN [c |-> [elems |-> elems,
                          num_entries |-> c.num_entries - 1,
                          total_size |-> c.total_size - bsize,
                          front |-> IF i = c.front THEN AdvanceFront(elems, c.front)
                                    ELSE c.front],
                   ret |-> b]
             ELSE QueryLoop(c, m, size, i + 1)

\* a query that never finds a block
cache_query_miss(c, m, size) == [c |-> c, ret |-> NULL]

\* returns [c, ret]
cache_query(c, m, size) == QueryLoop(c, m, size, c.front)

(* ================================ state =============================== *)

Threads == 1 .. NumThreads
Arenas == 0 .. NumArenas - 1
Lists == 0 .. MAXLISTS - 1
NoThread == 0

\* the build-time selector of the public interface
Variants == {"naive", "arena", "cached"}

\* request sizes: zero, two small sizes whose blocks differ by one alignment step,
\* a size beyond one chunk, a size that fills an arena exactly, a size whose adjusted
\* size is below the word modulus but carries heap_end past it, and a size whose
\* adjusted size wraps around the word modulus
BigReq == ARENA_MAX_SIZE - CHUNK_SIZE - 24
HugeReq == WordModulus - 200
WrapReq == WordModulus - 9
Sizes == {0, 24, 32, 5000, BigReq, HugeReq, WrapReq}

\* values of rand(): the two ends of its range, their neighbours and the middle
RandValues == {0, 1, RAND_MAX \div 2, RAND_MAX - 1, RAND_MAX}

\* the address of the lowest mapping (page aligned) and of the initial program break
MapBase == CHUNK_SIZE

VARIABLES
    variant,      \* which of the three interfaces this build uses
    max_ops,      \* how many public calls the driver's threads make together
    phase,        \* "boot" before test_init has run, "run" after
    init_ret,     \* what init returned: "pending", "true" or "false"
    os_refused,   \* the OS refused a mapping during init
    crash,        \* why the process died (failed assert, memory fault) and in which call
    mem,          \* the words of memory
    arenas,       \* arena.c: static arena_t *arenas
    max_arenas,   \* arena.c: static int max_arenas
    lock,         \* arenas[i].lock: the thread holding it, or NoThread
    last_used,    \* arena.c: static int last_used
    nv,           \* naive: heap_start, heap_end, seglists and the program break
    global_lock,  \* naive: static pthread_mutex_t global_lock
    cache,        \* static __thread cache_t local_cache, per thread
    pc,           \* where each thread is in its current call
    loc,          \* the locals of each thread's current call
    live,         \* pointers returned by alloc and not yet passed to free
    last,         \* the call that returned last
    nops          \* number of public calls made so far

vars == <<variant, max_ops, phase, init_ret, os_refused, crash, mem, arenas, max_arenas, lock,
          last_used, nv, global_lock, cache, pc, loc, live, last, nops>>

NoLists == [i \in Lists |-> NULL]
ZeroArena == [low |-> NULL, size |-> 0, heap_start |-> NULL, heap_end |-> NULL,
              seglists |-> NoLists]
Loc0 == [op |-> "none", size |-> 0, ptr |-> NULL, arena |-> 0, i |-> 0, addr |-> NULL,
         after |-> "done", ret |-> NULL]
Crash0 == [why |-> "none", op |-> "none", arg |-> 0]
Last0 == [t |-> NoThread, op |-> "none", size |-> 0, ptr |-> NULL, ret |-> NULL,
          hit |-> FALSE]

\* the state of the process before init, for a build of variant v whose driver
\* makes n calls; c is the value of the dispatch counter (0 when the process starts)
BootedWith(v, n, c) ==
    /\ variant = v
    /\ max_ops = n
    /\ phase = "boot"
    /\ init_ret = "pending"
    /\ os_refused = FALSE
    /\ crash = Crash0
    /\ mem = << >>
    /\ arenas = [i \in Arenas |-> ZeroArena]
    /\ max_arenas = 0
    /\ lock = [i \in Arenas |-> NoThread]
    /\ last_used = c
    /\ nv = [heap_start |-> NULL, heap_end |-> NULL, seglists |-> NoLists, brk |-> MapBase]
    /\ global_lock = NoThread
    /\ cache = [t \in Threads |-> ZeroCache]
    /\ pc = [t \in Threads |-> "start"]
    /\ loc = [t \in Threads |-> Loc0]
    /\ live = {}
    /\ last = Last0
    /\ nops = 0

\* the state of the process before init, for a build of variant v whose driver
\* makes n calls
Booted(v, n) == BootedWith(v, n, 0)

Init == \E v \in Variants : Booted(v, MaxOps)

Crashed == crash.why # "none"
\* abort() after a failed assert, or a memory fault, in the call op(arg)
Abort(why, op, arg) == crash' = [why |-> why, op |-> op, arg |-> arg]
\* the argument of the public call a thread is in
CallArg(l) == IF l.op = "malloc" THEN l.size ELSE l.ptr
\* the public operation a thread is in
CallOp(l) == IF l.op = "malloc" THEN "alloc" ELSE "free"

ArenaHp(a) ==
    [mem |-> mem, seglists |-> arenas[a].seglists, heap_start |-> arenas[a].heap_start,
     heap_end |-> arenas[a].heap_end, low |-> arenas[a].low, size |-> arenas[a].size,
     brk |-> 0, naive |-> FALSE, fault |-> FALSE]

NaiveHp ==
    [mem |-> mem, seglists |-> nv.seglists, heap_start |-> nv.heap_start,
     heap_end |-> nv.heap_end, low |-> MapBase, size |-> ARENA_MAX_SIZE,
     brk |-> nv.brk, naive |-> TRUE, fault |-> FALSE]

\* an address inside one of the arena mappings
Mapped(a) == \E i \in Arenas : arenas[i].low # NULL /\ a >= arenas[i].low
                                /\ a < arenas[i].low + arenas[i].size

(* ================================ init ================================ *)

\* e = [hp, block] as the first extend_arena_heap of an arena returns it
FirstExtended(hp0, e) == IF e.block = NULL THEN [hp0 EXCEPT !.fault = TRUE] ELSE e.hp

\* the first chunk of an arena whose sentinels are written; assert(false) if it fails
FirstExtension(hp0) == FirstExtended(hp0, extend_arena_heap(hp0, CHUNK_SIZE, TRUE))

\* InitArena with the prologue and the first header one word too high
InitArena_shifted(m, low) ==
    FirstExtension(
        [mem |-> Wr(Wr(m, Add(low, wsize), pack(0, TRUE, TRUE)),
                    Add(low, 2 * wsize), pack(0, TRUE, TRUE)),
         seglists |-> NoLists, heap_start |-> Add(low, 2 * wsize),
         heap_end |-> Add(low, 3 * wsize), low |-> low, size |-> ARENA_MAX_SIZE,
         brk |-> 0, naive |-> FALSE, fault |-> FALSE])

\* the body of the loop of arenas_init for one arena mapped at low; returns hp
InitArena(m, low) ==
    FirstExtension(
        [mem |-> Wr(Wr(m, low, pack(0, TRUE, TRUE)), Add(low, wsize), pack(0, TRUE, TRUE)),
         seglists |-> NoLists, heap_start |-> Add(low, wsize),
         heap_end |-> Add(low, 2 * wsize), low |-> low, size |-> ARENA_MAX_SIZE,
         brk |-> 0, naive |-> FALSE, fault |-> FALSE])

\* where mmap places the i-th arena: consecutive mappings, upwards or downwards
MapAddr(up, i) ==
    IF up THEN MapBase + i * ARENA_MAX_SIZE
    ELSE MapBase + (NumArenas - 1 - i) * ARENA_MAX_SIZE

\* the arena_t fields of the heap record hp
ArenaOf(hp) ==
    [low |-> hp.low, size |-> hp.size, heap_start |-> hp.heap_start,
     heap_end |-> hp.heap_end, seglists |-> hp.seglists]

\* acc = [mem, arenas, fault] after arena i has become hp
InitDone(acc, i, hp) ==
    [mem |-> hp.mem, arenas |-> [acc.arenas EXCEPT ![i] = ArenaOf(hp)],
     fault |-> acc.fault \/ hp.fault]

RECURSIVE InitLoop(_, _, _)
\* acc = [mem, arenas, fault]
InitLoop(up, i, acc) ==
    IF i >= NumArenas THEN acc
    ELSE InitLoop(up, i + 1, InitDone(acc, i, InitArena(acc.mem, MapAddr(up, i))))

\* arena_malloc_init / arena_cached_malloc_init: arenas_init(10), then return true.
\* refused: the OS refuses the arena-array mapping or an arena mapping; the asserts
\* of arenas_init then abort the process.
\* the end of arenas_init and of arena_malloc_init, r = [mem, arenas, fault]
Initialised(refused, r) ==
    IF refused \/ r.fault
    THEN /\ Abort("assert", "init", 0)
         /\ os_refused' = refused
         /\ UNCHANGED <<phase, init_ret, mem, arenas, max_arenas>>
    ELSE /\ mem' = r.mem
         /\ arenas' = r.arenas
         /\ max_arenas' = NumArenas
         /\ phase' = "run"
         /\ init_ret' = "true"
         /\ UNCHANGED <<crash, os_refused>>

arenas_init ==
    /\ phase = "boot" /\ ~Crashed
    /\ variant \in {"arena", "cached"}
    /\ \E refused \in BOOLEAN, up \in BOOLEAN :
         Initialised(refused,
                     InitLoop(up, 0, [mem |-> mem, arenas |-> arenas, fault |-> FALSE]))
    /\ UNCHANGED <<variant, max_ops, lock, last_used, nv, global_lock, cache, pc, loc, live, last, nops>>

\* naive_malloc_init: returns true and initialises nothing
naive_malloc_init ==
    /\ phase = "boot" /\ ~Crashed
    /\ variant = "naive"
    /\ phase' = "run"
    /\ init_ret' = "true"
    /\ UNCHANGED <<variant, max_ops, os_refused, crash, mem, arenas, max_arenas, lock, last_used,
                   nv, global_lock, cache, pc, loc, live, last, nops>>

\* the start of a worker thread of the driver: init_tcache() in the cached build
thread_start(t) ==
    /\ phase = "run" /\ ~Crashed
    /\ pc[t] = "start"
    /\ pc' = [pc EXCEPT ![t] = "idle"]
    /\ cache' = IF variant = "cached" THEN [cache EXCEPT ![t] = cache_init(@)] ELSE cache
    /\ UNCHANGED <<variant, max_ops, phase, init_ret, os_refused, crash, mem, arenas, max_arenas,
                   lock, last_used, nv, global_lock, loc, live, last, nops>>

(* ====================== arena and arena+cache variants ================= *)

\* the caller receives p from alloc(n)
Returned(t, n, p, hit) ==
    /\ live' = IF p = NULL THEN live ELSE live \cup {[id |-> nops, t |-> t, p |-> p, n |-> n]}
    /\ last' = [t |-> t, op |-> "alloc", size |-> n, ptr |-> NULL, ret |-> p, hit |-> hit]

\* a % b of C for b > 0: the remainder has the sign of a
CRem(a, b) ==
    LET m == a % b
    IN  IF a < 0 /\ m # 0 THEN m - b ELSE m

\* the value __atomic_fetch_add(&last_used, 1, __ATOMIC_SEQ_CST) leaves in the 32-bit
\* signed counter: the atomic add wraps
FetchAdd(c) == IF c = INT_MAX THEN INT_MIN ELSE c + 1

\* get_arena up to the lock: the atomic fetch-and-add and the index
get_arena_index == CRem(last_used, max_arenas)

\* get_arena from its index on, in alloc(size) of thread t: the thread waits for the
\* lock of arenas[index]; an index outside the array makes pthread_mutex_lock work on
\* memory that is no arena: the access faults, or the call never comes back
GetArena(t, size) ==
    /\ last_used' = FetchAdd(last_used)
    /\ IF get_arena_index \in 0 .. max_arenas - 1
       THEN /\ loc' = [loc EXCEPT ![t] = [Loc0 EXCEPT !.op = "malloc", !.size = size,
                                                      !.arena = get_arena_index]]
            /\ pc' = [pc EXCEPT ![t] = "lock"]
            /\ UNCHANGED crash
       ELSE \/ /\ Abort("fault", "alloc", size)
               /\ UNCHANGED <<loc, pc>>
            \/ /\ loc' = [loc EXCEPT ![t] = [Loc0 EXCEPT !.op = "malloc", !.size = size]]
               /\ pc' = [pc EXCEPT ![t] = "wild"]
               /\ UNCHANGED crash

\* arena_malloc(size): get_arena() picks the arena; the thread then waits for its lock
arena_malloc_call(t, size) ==
    /\ phase = "run" /\ ~Crashed /\ variant = "arena"
    /\ pc[t] = "idle" /\ nops < max_ops
    /\ nops' = nops + 1
    /\ GetArena(t, size)
    /\ UNCHANGED <<variant, max_ops, phase, init_ret, os_refused, mem, arenas, max_arenas,
                   lock, nv, global_lock, cache, live, last>>

\* arena_cached_malloc without its cache: every call goes to an arena
arena_cached_malloc_call_uncached(t, size) ==
    /\ phase = "run" /\ ~Crashed /\ variant = "cached"
    /\ pc[t] = "idle" /\ nops < max_ops
    /\ nops' = nops + 1
    /\ GetArena(t, size)
    /\ UNCHANGED <<variant, max_ops, phase, init_ret, os_refused, mem, arenas, max_arenas,
                   lock, nv, global_lock, cache, live, last>>

\* arena_cached_malloc(size): the cache is asked first, with the requested size
arena_cached_malloc_call(t, size) ==
    /\ phase = "run" /\ ~Crashed /\ variant = "cached"
    /\ pc[t] = "idle" /\ nops < max_ops
    /\ nops' = nops + 1
    /\ LET q == cache_query(cache[t], mem, size)
       IN  IF q.ret # NULL
           THEN /\ cache' = [cache EXCEPT ![t] = q.c]
                /\ Returned(t, size, header_to_payload(q.ret), TRUE)
                /\ UNCHANGED <<crash, last_used, loc, pc>>
           ELSE /\ GetArena(t, size)
                /\ UNCHANGED <<cache, live, last>>
    /\ UNCHANGED <<variant, max_ops, phase, init_ret, os_refused, mem, arenas, max_arenas,
                   lock, nv, global_lock>>

\* the pointers a caller may pass to free: a live pointer, or none
FreeArgs == {l.p : l \in live} \cup {NULL}

\* the caller gives up ptr when it calls free(ptr)
GiveUp(t, ptr) ==
    live' = IF ptr = NULL THEN live ELSE live \ {CHOOSE l \in live : l.p = ptr}

\* free(ptr) returns to the caller
Freed(t, ptr) ==
    last' = [t |-> t, op |-> "free", size |-> 0, ptr |-> ptr, ret |-> NULL, hit |-> FALSE]

\* arena_free(ptr): find_arena(ptr) starts its scan
arena_free_call(t, ptr) ==
    /\ phase = "run" /\ ~Crashed /\ variant = "arena"
    /\ pc[t] = "idle" /\ nops < max_ops
    /\ nops' = nops + 1
    /\ GiveUp(t, ptr)
    /\ loc' = [loc EXCEPT ![t] = [Loc0 EXCEPT !.op = "free", !.ptr = ptr, !.addr = ptr]]
    /\ pc' = [pc EXCEPT ![t] = "find"]
    /\ UNCHANGED <<variant, max_ops, phase, init_ret, os_refused, crash, mem, arenas, max_arenas,
                   lock, last_used, nv, global_lock, cache, last>>

\* an eviction test that is never true
EvictTest_never(r) == FALSE

\* (double)(rand() / RAND_MAX) < CACHE_EVICT_PROBABILITY, for rand() = r
EvictTest(r) == 10 * (r \div RAND_MAX) < 1

\* arena_cached_free(ptr) up to its first find_arena:
\* cache_add; on failure the eviction test, cache_evict and the call of truly_free
arena_cached_free_call(t, ptr) ==
    /\ phase = "run" /\ ~Crashed /\ variant = "cached"
    /\ pc[t] = "idle" /\ nops < max_ops
    /\ nops' = nops + 1
    /\ GiveUp(t, ptr)
    /\ LET block == payload_to_header(ptr)
           c == cache[t]
           a == cache_add(c, mem, block)
       IN  IF c.num_entries # CACHE_MAX_ENTRIES /\ ~Mapped(block)
           THEN \* get_size reads an unmapped address
                /\ Abort("fault", "free", ptr)
                /\ UNCHANGED <<cache, loc, pc, last>>
           ELSE IF a.ret
           THEN /\ cache' = [cache EXCEPT ![t] = a.c]
                /\ Freed(t, ptr)
                /\ UNCHANGED <<crash, loc, pc>>
           ELSE \E r \in RandValues :
                  IF EvictTest(r)
                  THEN IF c.num_entries > 0
                       THEN LET e == cache_evict(c, mem)
                            IN  /\ cache' = [cache EXCEPT ![t] = e.c]
                                /\ loc' = [loc EXCEPT ![t] =
                                             [Loc0 EXCEPT !.op = "truly", !.ptr = ptr,
                                                          !.addr = e.ret, !.after = "retry"]]
                                /\ pc' = [pc EXCEPT ![t] = "find"]
                                /\ UNCHANGED <<crash, last>>
                       ELSE \* assert(c->num_entries > 0) fails
                            /\ Abort("assert", "free", ptr)
                            /\ UNCHANGED <<cache, loc, pc, last>>
                  ELSE /\ loc' = [loc EXCEPT ![t] =
                                    [Loc0 EXCEPT !.op = "truly", !.ptr = ptr,
                                                 !.addr = block, !.after = "done"]]
                       /\ pc' = [pc EXCEPT ![t] = "find"]
                       /\ UNCHANGED <<crash, cache, last>>
    /\ UNCHANGED <<variant, max_ops, phase, init_ret, os_refused, mem, arenas, max_arenas,
                   lock, last_used, nv, global_lock>>

\* the test of find_arena without its lower bound
InArena_upper(address, ar) == address <= ar.heap_end

\* the test of find_arena: both bounds inclusive
InArena(address, ar) == address >= ar.heap_start /\ address <= ar.heap_end

\* one iteration of the loop of find_arena: the bounds of arenas[i] are read without
\* the lock; when the loop runs out, arena_free's assert fails and truly_free
\* dereferences the null arena
find_arena_step(t) ==
    /\ ~Crashed /\ pc[t] = "find"
    /\ LET i == loc[t].i
           address == loc[t].addr
       IN  IF i >= max_arenas
           THEN /\ Abort(IF loc[t].op = "free" THEN "assert" ELSE "fault", "free", loc[t].ptr)
                /\ UNCHANGED <<loc, pc>>
           ELSE IF InArena(address, arenas[i])
           THEN /\ loc' = [loc EXCEPT ![t].arena = i]
                /\ pc' = [pc EXCEPT ![t] = "lock"]
                /\ UNCHANGED crash
           ELSE /\ loc' = [loc EXCEPT ![t].i = i + 1]
                /\ UNCHANGED <<crash, pc>>
    /\ UNCHANGED <<variant, max_ops, phase, init_ret, os_refused, mem, arenas, max_arenas, lock,
                   last_used, nv, global_lock, cache, live, last, nops>>

\* a lock that never waits
CanLock_always(a) == TRUE

\* pthread_mutex_lock returns only when nobody holds the mutex
CanLock(a) == lock[a] = NoThread

\* pthread_mutex_lock(&arenas[index].lock) in get_arena and find_arena
lock_arena(t) ==
    /\ ~Crashed /\ pc[t] = "lock"
    /\ CanLock(loc[t].arena)
    /\ lock' = [lock EXCEPT ![loc[t].arena] = t]
    /\ pc' = [pc EXCEPT ![t] = "body"]
    /\ UNCHANGED <<variant, max_ops, phase, init_ret, os_refused, crash, mem, arenas, max_arenas,
                   last_used, nv, global_lock, cache, loc, live, last, nops>>

\* what the thread does to its arena between lock and release; returns [hp, bp]
ArenaBody(hp, l) ==
    IF l.op = "malloc" THEN _malloc(hp, l.size)
    ELSE IF l.op = "free" THEN [hp |-> _free(hp, l.ptr), bp |-> NULL]
    ELSE [hp |-> FreeBlock(hp, l.addr), bp |-> NULL]

\* the part of arena_malloc, arena_free and truly_free that runs with the arena locked
\* (every arena has its heap after arenas_init, so arena_malloc's lazy mapping of an
\* arena without heap_start is never taken)
\* r = [hp, bp] is what the locked part has made of arena a
ArenaStored(t, a, r) ==
    IF r.hp.fault
    THEN /\ Abort("assert", CallOp(loc[t]), CallArg(loc[t]))
         /\ UNCHANGED <<mem, arenas, loc, pc>>
    ELSE /\ mem' = r.hp.mem
         /\ arenas' = [arenas EXCEPT ![a].seglists = r.hp.seglists,
                                     ![a].heap_end = r.hp.heap_end]
         /\ loc' = [loc EXCEPT ![t].ret = r.bp]
         /\ pc' = [pc EXCEPT ![t] = "release"]
         /\ UNCHANGED crash

arena_body(t) ==
    /\ ~Crashed /\ pc[t] = "body"
    /\ ArenaStored(t, loc[t].arena, ArenaBody(ArenaHp(loc[t].arena), loc[t]))
    /\ UNCHANGED <<variant, max_ops, phase, init_ret, os_refused, max_arenas, lock, last_used, nv,
                   global_lock, cache, live, last, nops>>

\* an unlock that leaves the mutex held
Unlocked_never(a) == lock

\* pthread_mutex_unlock(&arena->lock) for arena a
Unlocked(a) == [lock EXCEPT ![a] = NoThread]

\* release_arena and the return to the caller; after the truly_free of an evicted block
\* arena_cached_free retries cache_add and, if that fails, calls truly_free(block)
release_arena(t) ==
    /\ ~Crashed /\ pc[t] = "release"
    /\ lock' = Unlocked(loc[t].arena)
    /\ IF loc[t].op = "malloc"
       THEN /\ Returned(t, loc[t].size, loc[t].ret, FALSE)
            /\ loc' = [loc EXCEPT ![t] = Loc0]
            /\ pc' = [pc EXCEPT ![t] = "idle"]
            /\ UNCHANGED <<cache, crash>>
       ELSE IF loc[t].op = "truly" /\ loc[t].after = "retry"
       THEN LET block == payload_to_header(loc[t].ptr)
                a == cache_add(cache[t], mem, block)
            IN  IF cache[t].num_entries # CACHE_MAX_ENTRIES /\ ~Mapped(block)
                THEN /\ Abort("fault", "free", loc[t].ptr)
                     /\ UNCHANGED <<cache, loc, pc, live, last>>
                ELSE IF a.ret
                THEN /\ cache' = [cache EXCEPT ![t] = a.c]
                     /\ loc' = [loc EXCEPT ![t] = Loc0]
                     /\ pc' = [pc EXCEPT ![t] = "idle"]
                     /\ Freed(t, loc[t].ptr)
                     /\ UNCHANGED <<crash, live>>
                ELSE /\ loc' = [loc EXCEPT ![t] =
                                  [Loc0 EXCEPT !.op = "truly", !.ptr = loc[t].ptr,
                                               !.addr = block, !.after = "done"]]
                     /\ pc' = [pc EXCEPT ![t] = "find"]
                     /\ UNCHANGED <<crash, cache, live, last>>
       ELSE /\ loc' = [loc EXCEPT ![t] = Loc0]
            /\ pc' = [pc EXCEPT ![t] = "idle"]
            /\ Freed(t, loc[t].ptr)
            /\ UNCHANGED <<cache, crash, live>>
    /\ UNCHANGED <<variant, max_ops, phase, init_ret, os_refused, mem, arenas, max_arenas,
                   last_used, nv, global_lock, nops>>

(* ============================= naive variant =========================== *)

\* mm_init without the mutex initialisation; returns hp
\* e = [hp, block] as the extend_heap of mm_init returns it
NaiveExtended(h1, e) == IF e.block = NULL THEN h1 ELSE e.hp

\* mm_init once the sentinels are written
NaiveFirstChunk(h1) == NaiveExtended(h1, extend_heap(h1, CHUNK_SIZE, TRUE))

\* mm_init after s = [hp, ret] = sbrk(2 * wsize)
NaiveStart(hp, s) ==
    IF s.ret = -1
    THEN [hp EXCEPT !.heap_end = 2 * wsize - 1]
    ELSE NaiveFirstChunk(
             [s.hp EXCEPT !.heap_end = Add(s.ret, 2 * wsize),
                          !.seglists = NoLists,
                          !.mem = Wr(Wr(@, s.ret, pack(0, TRUE, TRUE)),
                                     Add(s.ret, wsize), pack(0, TRUE, TRUE)),
                          !.heap_start = Add(s.ret, wsize)])

mm_init(hp) == NaiveStart(hp, sbrk(hp, 2 * wsize))

\* naive_malloc(size) up to the lock: heap_start is tested without the lock
naive_malloc_call(t, size) ==
    /\ phase = "run" /\ ~Crashed /\ variant = "naive"
    /\ pc[t] = "idle" /\ nops < max_ops
    /\ nops' = nops + 1
    /\ loc' = [loc EXCEPT ![t] = [Loc0 EXCEPT !.op = "malloc", !.size = size]]
    /\ pc' = [pc EXCEPT ![t] = IF nv.heap_start = NULL THEN "n_init" ELSE "n_lock"]
    /\ UNCHANGED <<variant, max_ops, phase, init_ret, os_refused, crash, mem, arenas, max_arenas,
                   lock, last_used, nv, global_lock, cache, live, last>>

\* the global heap becomes hp
NaiveStored(hp) ==
    /\ mem' = hp.mem
    /\ nv' = [heap_start |-> hp.heap_start, heap_end |-> hp.heap_end,
              seglists |-> hp.seglists, brk |-> hp.brk]

\* mm_init() called from naive_malloc, outside the lock; pthread_mutex_init on a mutex
\* that may be held either resets it or leaves it as it is
naive_mm_init(t) ==
    /\ ~Crashed /\ pc[t] = "n_init"
    /\ NaiveStored(mm_init(NaiveHp))
    /\ \E reset \in BOOLEAN : global_lock' = IF reset THEN NoThread ELSE global_lock
    /\ pc' = [pc EXCEPT ![t] = "n_lock"]
    /\ UNCHANGED <<variant, max_ops, phase, init_ret, os_refused, crash, arenas, max_arenas, lock,
                   last_used, cache, loc, live, last, nops>>

\* naive_free(ptr) up to the lock
naive_free_call(t, ptr) ==
    /\ phase = "run" /\ ~Crashed /\ variant = "naive"
    /\ pc[t] = "idle" /\ nops < max_ops
    /\ nops' = nops + 1
    /\ GiveUp(t, ptr)
    /\ loc' = [loc EXCEPT ![t] = [Loc0 EXCEPT !.op = "free", !.ptr = ptr]]
    /\ pc' = [pc EXCEPT ![t] = "n_lock"]
    /\ UNCHANGED <<variant, max_ops, phase, init_ret, os_refused, crash, mem, arenas, max_arenas,
                   lock, last_used, nv, global_lock, cache, last>>

\* pthread_mutex_lock(&global_lock)
naive_lock(t) ==
    /\ ~Crashed /\ pc[t] = "n_lock"
    /\ global_lock = NoThread
    /\ global_lock' = t
    /\ pc' = [pc EXCEPT ![t] = "n_body"]
    /\ UNCHANGED <<variant, max_ops, phase, init_ret, os_refused, crash, mem, arenas, max_arenas,
                   lock, last_used, nv, cache, loc, live, last, nops>>

\* _malloc(size) or _free(ptr) on the global heap
\* r = [hp, bp] is what _malloc or _free has made of the global heap
NaiveDone(t, r) ==
    IF r.hp.fault
    THEN /\ Abort("assert", CallOp(loc[t]), CallArg(loc[t]))
         /\ UNCHANGED <<mem, nv, loc, pc>>
    ELSE /\ NaiveStored(r.hp)
         /\ loc' = [loc EXCEPT ![t].ret = r.bp]
         /\ pc' = [pc EXCEPT ![t] = "n_unlock"]
         /\ UNCHANGED crash

naive_body(t) ==
    /\ ~Crashed /\ pc[t] = "n_body"
    /\ NaiveDone(t, ArenaBody(NaiveHp, loc[t]))
    /\ UNCHANGED <<variant, max_ops, phase, init_ret, os_refused, arenas, max_arenas, lock,
                   last_used, global_lock, cache, live, last, nops>>

\* pthread_mutex_unlock(&global_lock) and the return to the caller
naive_unlock(t) ==
    /\ ~Crashed /\ pc[t] = "n_unlock"
    /\ global_lock' = NoThread
    /\ IF loc[t].op = "malloc"
       THEN Returned(t, loc[t].size, loc[t].ret, FALSE)
       ELSE Freed(t, loc[t].ptr) /\ UNCHANGED live
    /\ loc' = [loc EXCEPT ![t] = Loc0]
    /\ pc' = [pc EXCEPT ![t] = "idle"]
    /\ UNCHANGED <<variant, max_ops, phase, init_ret, os_refused, crash, mem, arenas, max_arenas,
                   lock, last_used, nv, cache, nops>>

(* ============================ specification ============================ *)

Next ==
    \/ arenas_init
    \/ naive_malloc_init
    \/ \E t \in Threads : thread_start(t)
    \/ \E t \in Threads, size \in Sizes : arena_malloc_call(t, size)
    \/ \E t \in Threads, size \in Sizes : arena_cached_malloc_call(t, size)
    \/ \E t \in Threads, ptr \in FreeArgs : arena_free_call(t, ptr)
    \/ \E t \in Threads, ptr \in FreeArgs : arena_cached_free_call(t, ptr)
    \/ \E t \in Threads : find_arena_step(t)
    \/ \E t \in Threads : lock_arena(t)
    \/ \E t \in Threads : arena_body(t)
    \/ \E t \in Threads : release_arena(t)
    \/ \E t \in Threads, size \in Sizes : naive_malloc_call(t, size)
    \/ \E t \in Threads : naive_mm_init(t)
    \/ \E t \in Threads, ptr \in FreeArgs : naive_free_call(t, ptr)
    \/ \E t \in Threads : naive_lock(t)
    \/ \E t \in Threads : naive_body(t)
    \/ \E t \in Threads : naive_unlock(t)

Spec == Init /\ [][Next]_vars

\* the arena+cache build alone, with a driver that makes one call more: long enough
\* for a thread to fill its cache, fail a cache_add and evict
CachedInit == Booted("cached", MaxOps + 1)

CachedNext ==
    \/ arenas_init
    \/ \E t \in Threads : thread_start(t)
    \/ \E t \in Threads, size \in Sizes : arena_cached_malloc_call(t, size)
    \/ \E t \in Threads, ptr \in FreeArgs : arena_cached_free_call(t, ptr)
    \/ \E t \in Threads : find_arena_step(t)
    \/ \E t \in Threads : lock_arena(t)
    \/ \E t \in Threads : arena_body(t)
    \/ \E t \in Threads : release_arena(t)

CachedSpec == CachedInit /\ [][CachedNext]_vars

\* the arena build with one worker thread that makes twice as many calls: long enough
\* for round-robin dispatch to bring the thread back to the same arena three times
SoloInit == Booted("arena", 2 * MaxOps)

SoloNext ==
    \/ arenas_init
    \/ thread_start(1)
    \/ \E size \in Sizes : arena_malloc_call(1, size)
    \/ \E ptr \in FreeArgs : arena_free_call(1, ptr)
    \/ find_arena_step(1)
    \/ lock_arena(1)
    \/ arena_body(1)
    \/ release_arena(1)

SoloSpec == SoloInit /\ [][SoloNext]_vars

\* the arena+cache build with a driver that makes two calls more and never passes a
\* pointer to free that it would still hold afterwards: long enough for a block freed
\* by one thread to be handed to the other thread and freed there
HandOverSizes == {5000, BigReq, WrapReq}

HandOverInit == Booted("cached", MaxOps + 2)

\* free(ptr) by a caller that holds ptr from one alloc only
free_once_call(t, ptr) ==
    /\ arena_cached_free_call(t, ptr)
    /\ \A l \in live' : l.p # ptr

HandOverNext ==
    \/ arenas_init
    \/ \E t \in Threads : thread_start(t)
    \/ \E t \in Threads, size \in HandOverSizes : arena_cached_malloc_call(t, size)
    \/ \E t \in Threads, ptr \in FreeArgs : free_once_call(t, ptr)
    \/ \E t \in Threads : find_arena_step(t)
    \/ \E t \in Threads : lock_arena(t)
    \/ \E t \in Threads : arena_body(t)
    \/ \E t \in Threads : release_arena(t)

HandOverSpec == HandOverInit /\ [][HandOverNext]_vars

\* the arena build after its threads have made so many calls of alloc(0), which
\* dispatch and leave every heap as it is, that the dispatch counter is about to wrap
CounterStarts == {0, INT_MAX}

DispatchInit == \E c \in CounterStarts : BootedWith("arena", MaxOps, c)

DispatchNext ==
    \/ arenas_init
    \/ \E t \in Threads : thread_start(t)
    \/ \E t \in Threads, size \in Sizes : arena_malloc_call(t, size)
    \/ \E t \in Threads, ptr \in FreeArgs : arena_free_call(t, ptr)
    \/ \E t \in Threads : find_arena_step(t)
    \/ \E t \in Threads : lock_arena(t)
    \/ \E t \in Threads : arena_body(t)
    \/ \E t \in Threads : release_arena(t)

DispatchSpec == DispatchInit /\ [][DispatchNext]_vars

\* the split/coalesce scenario, run by thread 1 on a freshly initialised allocator of
\* any build: a = alloc(64); b = alloc(64); c = alloc(64); free(a); free(c); free(b)
ScriptSize == 64
ScriptLength == 6

ScriptInit == \E v \in Variants : Booted(v, ScriptLength)

\* the pointer that the k-th call of the scenario frees: a, then c, then b, which the
\* allocs number 1, 2 and 3 returned
ScriptFrees == {l.p : l \in {x \in live : x.id = (IF nops = 3 THEN 1 ELSE IF nops = 4 THEN 3 ELSE 2)}}

ScriptNext ==
    \/ arenas_init
    \/ naive_malloc_init
    \/ \E t \in Threads : thread_start(t)
    \/ nops < 3 /\ arena_malloc_call(1, ScriptSize)
    \/ nops < 3 /\ arena_cached_malloc_call(1, ScriptSize)
    \/ nops < 3 /\ naive_malloc_call(1, ScriptSize)
    \/ nops >= 3 /\ \E ptr \in ScriptFrees : arena_free_call(1, ptr)
    \/ nops >= 3 /\ \E ptr \in ScriptFrees : arena_cached_free_call(1, ptr)
    \/ nops >= 3 /\ \E ptr \in ScriptFrees : naive_free_call(1, ptr)
    \/ find_arena_step(1)
    \/ lock_arena(1)
    \/ arena_body(1)
    \/ release_arena(1)
    \/ naive_mm_init(1)
    \/ naive_lock(1)
    \/ naive_body(1)
    \/ naive_unlock(1)

ScriptSpec == ScriptInit /\ [][ScriptNext]_vars

(* ---------------- the thread cache on its own (thread_cache.c) ---------------- *)

\* the sizes of the allocated blocks that a caller of the cache functions holds; the
\* last one nearly fills CACHE_MAX_SIZE
PoolSizes == <<32, 48, 32, 64, 48, 32, 64, 32, 48, CACHE_MAX_SIZE - 64>>
Pool == 1 .. Len(PoolSizes)

RECURSIVE PoolAddr(_)
\* the header of the i-th of these blocks: they lie one behind the other
PoolAddr(i) == IF i = 1 THEN MapBase + wsize ELSE PoolAddr(i - 1) + PoolSizes[i - 1]

PoolBlocks == {PoolAddr(i) : i \in Pool}

\* the memory that holds their headers
PoolMem == [a \in PoolBlocks |-> pack(PoolSizes[CHOOSE i \in Pool : PoolAddr(i) = a], TRUE, TRUE)]

\* the sizes a caller asks cache_query for
QuerySizes == {24, 32, 48, 64, CACHE_MAX_SIZE - 64}
\* how many times the caller calls cache_query (counted in nops)
MaxQueries == 2

\* the caller (thread 1) before cache_init; phase tells what the caller has done since
\* the cache was last empty: "fill" (only cache_add), "drain" (cache_add, then only
\* cache_evict) or "mixed"; live holds the cached blocks, numbered in the order of
\* their cache_add
CacheUnitInit ==
    /\ variant = "cached"
    /\ max_ops = MaxQueries
    /\ phase = "fill"
    /\ init_ret = "pending"
    /\ os_refused = FALSE
    /\ crash = Crash0
    /\ mem = PoolMem
    /\ arenas = [i \in Arenas |-> ZeroArena]
    /\ max_arenas = 0
    /\ lock = [i \in Arenas |-> NoThread]
    /\ last_used = 0
    /\ nv = [heap_start |-> NULL, heap_end |-> NULL, seglists |-> NoLists, brk |-> MapBase]
    /\ global_lock = NoThread
    /\ cache = [t \in Threads |-> ZeroCache]
    /\ pc = [t \in Threads |-> "start"]
    /\ loc = [t \in Threads |-> Loc0]
    /\ live = {}
    /\ last = Last0
    /\ nops = 0

\* the blocks the caller can hand to cache_add: the lowest and the highest block
\* that is not in the cache
Uncached == PoolBlocks \ {cache[1].elems[i] : i \in Slots}
AddArgs == {b \in Uncached : \A x \in Uncached : x >= b} \cup
           {b \in Uncached : \A x \in Uncached : x <= b}

\* the caller's record of the cached blocks once block has left the cache
Without(block) ==
    LET rest == {l \in live : l.p # header_to_payload(block)}
    IN  {[l EXCEPT !.id = Cardinality({x \in rest : x.id < l.id}) + 1] : l \in rest}

\* what the caller has done since the cache was last empty, after a call of kind op
\* that leaves the cache c
PhaseAfter(op, c) ==
    IF c.num_entries = 0 THEN "fill"
    ELSE IF op = "add" /\ phase = "fill" THEN "fill"
    ELSE IF op = "evict" /\ phase \in {"fill", "drain"} THEN "drain"
    ELSE "mixed"

\* init_tcache(): cache_init(&local_cache)
unit_cache_init ==
    /\ pc[1] = "start"
    /\ cache' = [cache EXCEPT ![1] = cache_init(@)]
    /\ pc' = [pc EXCEPT ![1] = "idle"]
    /\ UNCHANGED <<variant, max_ops, phase, init_ret, os_refused, crash, mem, arenas, max_arenas,
                   lock, last_used, nv, global_lock, loc, live, last, nops>>

\* cache_add(&local_cache, block)
unit_cache_add(block) ==
    /\ pc[1] = "idle"
    /\ LET a == cache_add(cache[1], mem, block)
       IN  /\ cache' = [cache EXCEPT ![1] = a.c]
           /\ last' = [t |-> 1, op |-> "add", size |-> get_size(mem, block), ptr |-> block,
                       ret |-> NULL, hit |-> a.ret]
           /\ live' = IF a.ret
                      THEN live \cup {[id |-> Cardinality(live) + 1, t |-> 1,
                                       p |-> header_to_payload(block),
                                       n |-> get_size(mem, block)]}
                      ELSE live
           /\ phase' = PhaseAfter("add", a.c)
    /\ UNCHANGED <<variant, max_ops, init_ret, os_refused, crash, mem, arenas, max_arenas,
                   lock, last_used, nv, global_lock, pc, loc, nops>>

\* the block that the call before this one put into the cache, if it did
JustAdded == IF last.op = "add" /\ last.hit THEN last.ptr ELSE NULL

\* cache_query(&local_cache, size); the caller notes the block it had just added
unit_cache_query(size) ==
    /\ pc[1] = "idle" /\ nops < max_ops
    /\ nops' = nops + 1
    /\ LET q == cache_query(cache[1], mem, size)
       IN  /\ cache' = [cache EXCEPT ![1] = q.c]
           /\ last' = [t |-> 1, op |-> "query", size |-> size, ptr |-> JustAdded,
                       ret |-> q.ret, hit |-> q.ret # NULL]
           /\ live' = Without(q.ret)
           /\ phase' = PhaseAfter("query", q.c)
    /\ UNCHANGED <<variant, max_ops, init_ret, os_refused, crash, mem, arenas, max_arenas,
                   lock, last_used, nv, global_lock, pc, loc>>

\* cache_evict(&local_cache), called as its assert demands
unit_cache_evict ==
    /\ pc[1] = "idle"
    /\ cache[1].num_entries > 0
    /\ LET e == cache_evict(cache[1], mem)
       IN  /\ cache' = [cache EXCEPT ![1] = e.c]
           /\ last' = [t |-> 1, op |-> "evict", size |-> 0, ptr |-> NULL,
                       ret |-> e.ret, hit |-> FALSE]
           /\ live' = Without(e.ret)
           /\ phase' = PhaseAfter("evict", e.c)
    /\ UNCHANGED <<variant, max_ops, init_ret, os_refused, crash, mem, arenas, max_arenas,
                   lock, last_used, nv, global_lock, pc, loc, nops>>

CacheUnitNext ==
    \/ unit_cache_init
    \/ \E block \in AddArgs : unit_cache_add(block)
    \/ \E size \in QuerySizes : unit_cache_query(size)
    \/ unit_cache_evict

CacheUnitSpec == CacheUnitInit /\ [][CacheUnitNext]_vars

(* ------------------- one free list on its own (search_list) ------------------- *)

\* how many free blocks of size class 1 (64 .. 127 bytes) the caller lists: two more
\* than search_list visits
ListLength == MAX_SEGLIST_SEARCH + 2
ListPool == 1 .. ListLength
\* the size of most of them, the sizes of two of them, and which two (counted in the
\* order in which they are listed)
CommonSize == 64
OtherSizes == {80, 96, 112}
OtherPlaces == {1, 2, 3, ListLength - 1, ListLength}
\* the sizes search_list is asked for
SearchSizes == {64, 80, 96, 112}

\* the header of the i-th block: allocated blocks lie between them
ListBlockAddr(i) == MapBase + wsize + (i - 1) * 256

\* the headers of the blocks when the p-th has size sp and the q-th has size sq
ListPoolMem(p, sp, q, sq) ==
    [a \in {ListBlockAddr(i) : i \in ListPool} |->
        LET i == CHOOSE j \in ListPool : ListBlockAddr(j) = a
        IN  pack(IF i = q THEN sq ELSE IF i = p THEN sp ELSE CommonSize, FALSE, TRUE)]

\* the caller (thread 1) holds the lock of arena 0, whose free lists are empty; nops
\* counts the blocks it has listed
ListUnitInit ==
    /\ variant = "arena"
    /\ max_ops = ListLength
    /\ phase = "list"
    /\ init_ret = "pending"
    /\ os_refused = FALSE
    /\ crash = Crash0
    /\ \E p \in OtherPlaces, q \in OtherPlaces, sp \in OtherSizes, sq \in OtherSizes :
         mem = ListPoolMem(p, sp, q, sq)
    /\ arenas = [i \in Arenas |-> ZeroArena]
    /\ max_arenas = 0
    /\ lock = [i \in Arenas |-> IF i = 0 THEN 1 ELSE NoThread]
    /\ last_used = 0
    /\ nv = [heap_start |-> NULL, heap_end |-> NULL, seglists |-> NoLists, brk |-> MapBase]
    /\ global_lock = NoThread
    /\ cache = [t \in Threads |-> ZeroCache]
    /\ pc = [t \in Threads |-> IF t = 1 THEN "body" ELSE "start"]
    /\ loc = [t \in Threads |-> Loc0]
    /\ live = {}
    /\ last = Last0
    /\ nops = 0

\* add_to_free_list(block, arena) for the next block
unit_add_to_free_list ==
    /\ nops < max_ops
    /\ LET hp == add_to_free_list(ArenaHp(0), ListBlockAddr(nops + 1))
       IN  /\ mem' = hp.mem
           /\ arenas' = [arenas EXCEPT ![0].seglists = hp.seglists]
    /\ nops' = nops + 1
    /\ last' = [t |-> 1, op |-> "list", size |-> 0, ptr |-> ListBlockAddr(nops + 1),
                ret |-> NULL, hit |-> FALSE]
    /\ UNCHANGED <<variant, max_ops, phase, init_ret, os_refused, crash, max_arenas, lock,
                   last_used, nv, global_lock, cache, pc, loc, live>>

\* search_list(arena->seglists[1], asize)
unit_search_list(asize) ==
    /\ last' = [t |-> 1, op |-> "search", size |-> asize, ptr |-> arenas[0].seglists[1],
                ret |-> search_list(mem, arenas[0].seglists[1], asize), hit |-> FALSE]
    /\ UNCHANGED <<variant, max_ops, phase, init_ret, os_refused, crash, mem, arenas, max_arenas,
                   lock, last_used, nv, global_lock, cache, pc, loc, live, nops>>

ListUnitNext ==
    \/ unit_add_to_free_list
    \/ \E asize \in SearchSizes : unit_search_list(asize)

ListUnitSpec == ListUnitInit /\ [][ListUnitNext]_vars

(* ------------------------ the size classes on their own ----------------------- *)

RECURSIVE Pow2(_)
Pow2(k) == IF k = 0 THEN 1 ELSE 2 * Pow2(k - 1)

\* block sizes: the two smallest, and each power of two below the word modulus with
\* the block sizes next to it
ClassSizes ==
    {32, 48} \cup UNION {{Pow2(k) - dsize, Pow2(k), Pow2(k) + dsize} : k \in 6 .. 29}

\* the header of the one block
ClassBlock == MapBase + wsize

\* a free block of one of these sizes, and nothing else
ClassUnitInit ==
    /\ variant = "arena"
    /\ max_ops = 0
    /\ phase = "class"
    /\ init_ret = "pending"
    /\ os_refused = FALSE
    /\ crash = Crash0
    /\ \E size \in ClassSizes : mem = (ClassBlock :> pack(size, FALSE, TRUE))
    /\ arenas = [i \in Arenas |-> ZeroArena]
    /\ max_arenas = 0
    /\ lock = [i \in Arenas |-> NoThread]
    /\ last_used = 0
    /\ nv = [heap_start |-> NULL, heap_end |-> NULL, seglists |-> NoLists, brk |-> MapBase]
    /\ global_lock = NoThread
    /\ cache = [t \in Threads |-> ZeroCache]
    /\ pc = [t \in Threads |-> "start"]
    /\ loc = [t \in Threads |-> Loc0]
    /\ live = {}
    /\ last = Last0
    /\ nops = 0

\* a call that changes nothing returns ret for the block's size
ClassReturned(op, ret) ==
    /\ last' = [t |-> 1, op |-> op, size |-> get_size(mem, ClassBlock), ptr |-> ClassBlock,
                ret |-> ret, hit |-> FALSE]
    /\ UNCHANGED <<variant, max_ops, phase, init_ret, os_refused, crash, mem, arenas, max_arenas,
                   lock, last_used, nv, global_lock, cache, pc, loc, live, nops>>

\* find_list_for_block(block)
unit_find_list_for_block == ClassReturned("class", find_list_for_block(mem, ClassBlock))

\* the min_list_ind that find_fit(asize, arena) computes for the size of the block
unit_min_list_ind == ClassReturned("c_min", MinListInd(get_size(mem, ClassBlock)))

ClassUnitNext == unit_find_list_for_block \/ unit_min_list_ind

ClassUnitSpec == ClassUnitInit /\ [][ClassUnitNext]_vars

\* thread t is at a step that waits for nothing: the locked part of a call, or mm_init
CanRun(t) == ~Crashed /\ pc[t] \in {"body", "n_init", "n_body"}

\* a scheduled thread takes its next step, and a thread waiting for a mutex that is
\* free again and again gets it (a fair mutex).  The steps of arena_body,
\* naive_mm_init and naive_body are enabled exactly when CanRun holds and each of
\* them leaves CanRun or aborts, so their weak fairness is []<>~CanRun(t).
Fairness(t) ==
    /\ WF_vars(find_arena_step(t))
    /\ SF_vars(lock_arena(t))
    /\ WF_vars(release_arena(t))
    /\ SF_vars(naive_lock(t))
    /\ WF_vars(naive_unlock(t))
    /\ []<>~CanRun(t)

FairSpec == Spec /\ \A t \in Threads : Fairness(t)

(* ============================ sanity checks ============================ *)

TypeOK ==
    /\ variant \in Variants
    /\ crash.why \in {"none", "assert", "fault"}
    /\ nops \in 0 .. max_ops
    /\ \A a \in DOMAIN mem : a % 8 = 0 /\ mem[a] \in 0 .. WordModulus - 1


(* ============================== properties ============================= *)

\* the header of the block a returned pointer belongs to
HeaderOf(p) == payload_to_header(p)

\* the blocks [h1, h1 + s1) and [h2, h2 + s2) share an address
Overlap(h1, s1, h2, s2) == h1 < h2 + s2 /\ h2 < h1 + s1

\* the blocks held in the cache of thread t
CachedBlocks(t) == {cache[t].elems[i] : i \in Slots} \ {NULL}

\* the blocks with headers at h1 and h2 are one block or overlap
Clash(h1, h2) ==
    h1 = h2 \/ Overlap(h1, get_size(mem, h1), h2, get_size(mem, h2))

\* round_up(n + wsize, dsize) without the wrap of size_t
TrueAsize(n) ==
    IF n + wsize <= dsize THEN 2 * dsize
    ELSE dsize * ((n + wsize + dsize - 1) \div dsize)

RECURSIVE ListPrefix(_, _, _)
\* the first k blocks of the free list that starts at block
ListPrefix(m, block, k) ==
    IF block = NULL \/ k = 0 THEN {}
    ELSE {block} \cup ListPrefix(m, Rd(m, Add(block, OffNext)), k - 1)

\* every block on the free lists of arena ar
AllFree(ar) ==
    UNION {ListPrefix(mem, ar.seglists[i], Cardinality(DOMAIN mem)) : i \in Lists}

\* the heap of ar can grow by what _malloc asks for a block of asize bytes
RoomToExtend(ar, asize) ==
    ar.heap_end + (IF asize > CHUNK_SIZE THEN asize ELSE CHUNK_SIZE) <= ar.low + ar.size

\* ar has a free block of asize bytes on some list, or room to extend
HasCapacity(ar, asize) ==
    \/ \E b \in AllFree(ar) : get_size(mem, b) >= asize
    \/ RoomToExtend(ar, asize)

\* ar has a free block of asize bytes among the first MAX_SEGLIST_SEARCH entries of
\* the list of asize's class or of the next list
SearchedFit(ar, asize) ==
    \E i \in {MinListInd(asize), MinListInd(asize) + 1} \cap Lists :
        \E b \in ListPrefix(mem, ar.seglists[i], MAX_SEGLIST_SEARCH) :
            get_size(mem, b) >= asize

\* thread t is about to return none from alloc(s) with s > 0
ReturnsNone(t) ==
    pc[t] = "release" /\ loc[t].op = "malloc" /\ loc[t].size > 0 /\ loc[t].ret = NULL

\* address lies in the mapping of arena i
OwnedBy(address, i) ==
    arenas[i].low # NULL /\ address >= arenas[i].low
    /\ address < arenas[i].low + arenas[i].size

\* the words of memory inside the mapping of arena a
MemInOf(m, a) ==
    [x \in {y \in DOMAIN m : OwnedBy(y, a)} |-> m[x]]

\* C1: in every variant the blocks of two live pointers are disjoint, and a block
\* held in a thread cache is neither live nor held in a second cache slot
C1_LiveBlocksDisjoint ==
    /\ \A l1, l2 \in live : l1 # l2 => ~Clash(HeaderOf(l1.p), HeaderOf(l2.p))
    /\ \A t \in Threads : \A b \in CachedBlocks(t) :
         \A l \in live : ~Clash(b, HeaderOf(l.p))
    /\ \A t1, t2 \in Threads : \A i, j \in Slots :
         (<<t1, i>> # <<t2, j>> /\ cache[t1].elems[i] # NULL /\ cache[t2].elems[j] # NULL)
            => ~Clash(cache[t1].elems[i], cache[t2].elems[j])

\* C2: a pointer returned by alloc(n), n >= 1 (n within an arena's capacity; larger
\* requests are the subject of C6), is the payload of an allocated block of at least
\* n + 8 bytes, also when the thread cache served it
C2_BlockHoldsRequest ==
    \A l \in live :
        (l.n >= 1 /\ l.n + wsize <= ARENA_MAX_SIZE)
           => /\ get_alloc(mem, HeaderOf(l.p))
              /\ get_size(mem, HeaderOf(l.p)) >= l.n + wsize

\* C3: in the arena and arena+cache variants every returned pointer is a multiple of 16
C3_PointersAligned ==
    variant # "naive" => \A l \in live : l.p % dsize = 0

\* a live pointer beyond the first chunk of its arena, whose lists hold a block
C3_Witness ==
    /\ variant # "naive"
    /\ \E l \in live, a \in Arenas :
         /\ OwnedBy(l.p, a)
         /\ l.p > arenas[a].heap_start + CHUNK_SIZE
         /\ AllFree(arenas[a]) # {}

\* C4: alloc(0) returns none in every variant and every state
C4_ZeroIsNone ==
    (last.op = "alloc" /\ last.size = 0) => last.ret = NULL

\* C5 as stated: alloc(s), s > 0, returns none only when no arena has a free block of
\* round_up(s + 8, 16) bytes or room to extend for it
C5_NoneOnlyWhenNoCapacityAnywhere ==
    \A t \in Threads :
        ReturnsNone(t) =>
            \A a \in Arenas : ~HasCapacity(arenas[a], TrueAsize(loc[t].size))

\* C5 amended: alloc(s), s > 0, returns none only when the arena picked by round-robin
\* has no fitting block among those find_fit searches and no room to extend
C5_NoneOnlyWhenPickedArenaExhausted ==
    \A t \in Threads :
        ReturnsNone(t) =>
            /\ ~SearchedFit(arenas[loc[t].arena], TrueAsize(loc[t].size))
            /\ ~RoomToExtend(arenas[loc[t].arena], TrueAsize(loc[t].size))

\* alloc returns none from an exhausted arena while another arena has capacity
C5_Witness ==
    \E t \in Threads :
        /\ ReturnsNone(t)
        /\ \E a \in Arenas \ {loc[t].arena} :
             HasCapacity(arenas[a], TrueAsize(loc[t].size))

\* C6: alloc(s) returns none whenever s + 8 exceeds ARENA_MAX_SIZE, also when s + 8
\* or its rounding wraps
C6_OversizeIsNone ==
    (last.op = "alloc" /\ last.size + wsize > ARENA_MAX_SIZE) => last.ret = NULL

\* C7: free(none) returns normally in all three variants: it neither aborts nor faults
C7_FreeNoneReturns ==
    ~(Crashed /\ crash.op = "free" /\ crash.arg = NULL)

\* C8: when the OS refuses a mapping during init, init returns false
C8_InitReportsRefusal ==
    os_refused => init_ret = "false"

\* C9: every live pointer lies in the heap range of exactly one arena, alloc returns
\* pointers of the arena it locked, find_arena locks the arena whose mapping holds the
\* address, and every arena's free lists hold blocks of that arena only
C9_FindArenaFindsServer ==
    /\ variant # "naive" =>
         \A l \in live :
            Cardinality({i \in Arenas : l.p >= arenas[i].heap_start
                                        /\ l.p < arenas[i].heap_end}) = 1
    /\ \A t \in Threads :
         (pc[t] = "release" /\ loc[t].op = "malloc" /\ loc[t].ret # NULL)
            => /\ loc[t].ret >= arenas[loc[t].arena].heap_start
               /\ loc[t].ret < arenas[loc[t].arena].heap_end
    /\ \A t \in Threads :
         (pc[t] \in {"lock", "body", "release"} /\ loc[t].op \in {"free", "truly"})
            => OwnedBy(loc[t].addr, loc[t].arena)
    /\ \A i \in Arenas : \A b \in AllFree(arenas[i]) : OwnedBy(b, i)

\* a thread has freed, into an arena other than the first, a pointer that another
\* thread's alloc returned
C9_Witness ==
    \E t \in Threads :
        /\ pc[t] = "release" /\ loc[t].op \in {"free", "truly"}
        /\ loc[t].arena # 0
        /\ last.op = "alloc" /\ last.t # t /\ last.ret = loc[t].ptr
        /\ \E b \in AllFree(arenas[loc[t].arena]) :
             Overlap(b, get_size(mem, b), HeaderOf(loc[t].ptr), wsize)

\* at most one thread is between the lock and the release of any one arena
MutexExclusive ==
    \A a \in Arenas :
        Cardinality({t \in Threads : pc[t] \in {"body", "release"}
                                     /\ loc[t].arena = a}) <= 1

\* a step that changes the record of arena a or a word of its mapping is the step of
\* a thread that holds a's mutex
WritesUnderLock ==
    \A a \in Arenas :
        (phase = "run" /\ (arenas'[a] # arenas[a] \/ MemInOf(mem', a) # MemInOf(mem, a)))
           => \E t \in Threads : lock[a] = t /\ pc[t] = "body" /\ loc[t].arena = a

\* C10: after arenas_init every write to an arena's heap, lists and heap_end is made
\* by the holder of that arena's mutex, and a mutex has at most one holder
C10_ArenaWritesUnderMutex ==
    [](variant # "naive" => MutexExclusive) /\ [][WritesUnderLock]_vars

\* one thread works on an arena while another waits for the same arena's mutex
C10_Witness ==
    \E t1, t2 \in Threads :
        /\ pc[t1] = "body" /\ pc[t2] = "lock"
        /\ loc[t1].arena = loc[t2].arena
        /\ lock[loc[t1].arena] = t1

\* a step that changes the global heap (heap_start, heap_end, seglists, the break or a
\* word of memory) is the step of the thread that holds global_lock
NaiveWritesUnderLock ==
    (variant = "naive" /\ (nv' # nv \/ mem' # mem))
       => \E t \in Threads : global_lock = t /\ pc[t] = "n_body"

\* the global heap, once initialised, keeps its heap_start
NaiveInitOnce == nv.heap_start # NULL => nv'.heap_start = nv.heap_start

\* every live pointer of the naive variant lies in the current global heap
NaiveNothingLost ==
    variant = "naive" => \A l \in live : l.p >= nv.heap_start /\ l.p < nv.heap_end

\* C11: in the naive variant every write to the global heap state, the lazy mm_init
\* of naive_malloc included, is made by the holder of global_lock; concurrent first
\* calls initialise the heap exactly once and no earlier allocation is lost
C11_NaiveWritesUnderGlobalMutex ==
    [][NaiveWritesUnderLock /\ NaiveInitOnce]_vars /\ []NaiveNothingLost

\* the arena mutexes thread t holds
HeldBy(t) == {a \in Arenas : lock[a] = t}

\* C12: at every point of every execution a thread holds at most one arena mutex;
\* arena_cached_free has released the evicted block's arena before it locks the arena
\* of the incoming block
C12_AtMostOneArenaMutex ==
    \A t \in Threads : Cardinality(HeldBy(t)) <= 1

\* arena_cached_free is about to release the arena of the block it evicted, and the
\* incoming block, too large for the cache, belongs to another arena
C12_Witness ==
    \E t \in Threads :
        /\ pc[t] = "release" /\ loc[t].op = "truly" /\ loc[t].after = "retry"
        /\ HeldBy(t) = {loc[t].arena}
        /\ \E a \in Arenas \ {loc[t].arena} : OwnedBy(HeaderOf(loc[t].ptr), a)
        /\ get_size(mem, HeaderOf(loc[t].ptr)) > CACHE_MAX_SIZE

\* thread t is inside a public call
InCall(t) == pc[t] \notin {"start", "idle"}

\* thread t is back in its caller and holds no mutex
Back(t) == pc[t] = "idle" /\ HeldBy(t) = {} /\ global_lock # t

\* C13: under fair scheduling and a fair mutex every call to alloc or free, in every
\* variant, eventually returns, and on return the calling thread holds no mutex
C13_EveryCallReturns ==
    \A t \in Threads : InCall(t) ~> Back(t)

\* what the code does guarantee: a call returns unless the process aborts in it
CallsReturnUnlessAborted ==
    \A t \in Threads : InCall(t) ~> (Back(t) \/ Crashed)

\* a thread that is not inside a call holds no mutex
NoMutexOutsideCalls ==
    \A t \in Threads : ~InCall(t) => (HeldBy(t) = {} /\ global_lock # t)

(* ------------------------- the heap of one arena ----------------------- *)

\* the address of the epilogue of a heap that ends at heap_end
EpilogueOf(heap_end) == Sub(heap_end, wsize)

RECURSIVE BlocksFrom(_, _, _, _)
\* the headers of the blocks met from block on by following the sizes, up to the
\* epilogue at epi; k bounds the walk
BlocksFrom(m, block, epi, k) ==
    IF k = 0 \/ block >= epi \/ get_size(m, block) = 0 THEN {}
    ELSE {block} \cup BlocksFrom(m, find_next(m, block), epi, k - 1)

RECURSIVE WalkEnd(_, _, _, _)
\* the address at which that walk stops
WalkEnd(m, block, epi, k) ==
    IF k = 0 \/ block >= epi \/ get_size(m, block) = 0 THEN block
    ELSE WalkEnd(m, find_next(m, block), epi, k - 1)

\* every block of the heap of ar, in address order from heap_start
BlocksOf(ar) ==
    BlocksFrom(mem, ar.heap_start, EpilogueOf(ar.heap_end), Cardinality(DOMAIN mem))

\* the naive heap as an arena record
NaiveArena ==
    [low |-> MapBase, size |-> ARENA_MAX_SIZE, heap_start |-> nv.heap_start,
     heap_end |-> nv.heap_end, seglists |-> nv.seglists]

\* the heaps nobody is working on: the arenas whose mutex is free and, in the naive
\* build, the initialised global heap while global_lock is free and no mm_init runs
QuietArenas ==
    IF phase # "run" THEN {}
    ELSE IF variant = "naive"
    THEN IF nv.heap_start # NULL /\ global_lock = NoThread
            /\ \A t \in Threads : pc[t] \notin {"n_init", "n_body", "n_unlock"}
         THEN {NaiveArena} ELSE {}
    ELSE {arenas[a] : a \in {x \in Arenas : lock[x] = NoThread}}

\* the arenas of the registry whose mutex is free
QuietRegistryArenas ==
    IF phase = "run" /\ variant # "naive"
    THEN {arenas[a] : a \in {x \in Arenas : lock[x] = NoThread}}
    ELSE {}

\* in the heap of ar every block's prev_alloc bit, and the epilogue's, is the alloc bit
\* of the block before it; the block at heap_start follows the allocated prologue
PrevAllocAgrees(ar) ==
    /\ get_prev_alloc(mem, ar.heap_start)
    /\ \A b \in BlocksOf(ar) :
         get_prev_alloc(mem, find_next(mem, b)) = get_alloc(mem, b)

\* C14: whenever an arena's mutex is not held, the prev_alloc bit of every block of
\* that arena and of its epilogue equals the alloc bit of the block right before it
C14_PrevAllocMatchesPredecessor ==
    \A ar \in QuietRegistryArenas : PrevAllocAgrees(ar)

\* no free block of ar is followed by a free block
NoAdjacentFree(ar) ==
    \A b \in BlocksOf(ar) : get_alloc(mem, b) \/ get_alloc(mem, find_next(mem, b))

\* C15: whenever an arena's mutex is not held, no two blocks of that arena that are
\* adjacent in address order are both free
C15_NoAdjacentFreeBlocks ==
    \A ar \in QuietRegistryArenas : NoAdjacentFree(ar)

RECURSIVE ListEnds(_, _, _)
\* following the next links from block reaches NULL within k steps
ListEnds(m, block, k) ==
    IF block = NULL THEN TRUE
    ELSE IF k = 0 THEN FALSE
    ELSE ListEnds(m, Rd(m, Add(block, OffNext)), k - 1)

\* the blocks on list i of ar
OnList(ar, i) == ListPrefix(mem, ar.seglists[i], Cardinality(DOMAIN mem))

\* list i of ar is an acyclic doubly-linked list whose head has no predecessor
WellLinked(ar, i) ==
    /\ ListEnds(mem, ar.seglists[i], Cardinality(DOMAIN mem))
    /\ ar.seglists[i] # NULL => Rd(mem, Add(ar.seglists[i], OffPrev)) = NULL
    /\ \A b \in OnList(ar, i) :
         Rd(mem, Add(b, OffNext)) # NULL
            => Rd(mem, Add(Rd(mem, Add(b, OffNext)), OffPrev)) = b

\* the lists of ar hold exactly the free blocks of its heap, each on the list of its
\* size class
ListsHoldTheFreeBlocks(ar) ==
    /\ \A i \in Lists : \A b \in OnList(ar, i) :
         /\ b \in BlocksOf(ar)
         /\ ~get_alloc(mem, b)
         /\ find_list_for_block(mem, b) = i
    /\ \A b \in BlocksOf(ar) : ~get_alloc(mem, b) => \E i \in Lists : b \in OnList(ar, i)

\* C16: whenever an arena's mutex is not held, a block of that arena is on one of its
\* 15 lists iff its alloc bit is 0; it is there once, on the list of its size class, and
\* every list is a consistent acyclic doubly-linked list whose head has a null prev link
C16_FreeBlocksListedOnce ==
    \A ar \in QuietRegistryArenas :
        /\ ListsHoldTheFreeBlocks(ar)
        /\ \A i \in Lists : WellLinked(ar, i)

\* every heap of the build, whether or not a thread is working on it
AllHeaps ==
    IF phase # "run" THEN {}
    ELSE IF variant = "naive"
    THEN IF nv.heap_start # NULL THEN {NaiveArena} ELSE {}
    ELSE {arenas[a] : a \in Arenas}

\* every block of ar has a size of at least min_block_size that is a multiple of dsize
SizesValid(ar) ==
    \A b \in BlocksOf(ar) :
        get_size(mem, b) >= min_block_size /\ get_size(mem, b) % dsize = 0

\* following the block sizes from heap_start ends exactly at the epilogue
SumsToEpilogue(ar) ==
    WalkEnd(mem, ar.heap_start, EpilogueOf(ar.heap_end), Cardinality(DOMAIN mem))
        = EpilogueOf(ar.heap_end)

\* the block of every live pointer has the adjusted size of its request, or 16 more
AllocatedSizes ==
    \A l \in live :
        l.n >= 1 =>
            get_size(mem, HeaderOf(l.p)) \in
                {round_up(Add(l.n, wsize), dsize), round_up(Add(l.n, wsize), dsize) + dsize}

\* C17: in every reachable state every block of every heap has a size >= 32 that is
\* divisible by 16, the sizes from heap_start add up to the epilogue address, and an
\* allocated block has size asize or asize + 16, asize being the adjusted request size
C17_BlockSizesValid ==
    /\ \A ar \in AllHeaps : SizesValid(ar) /\ SumsToEpilogue(ar)
    /\ AllocatedSizes

\* the footer word of every free block of ar equals its header word
FootersMatch(ar) ==
    \A b \in BlocksOf(ar) :
        ~get_alloc(mem, b) => Rd(mem, header_to_footer(mem, b)) = Rd(mem, b)

\* C18: whenever an arena's mutex is not held, the footer word of every free block of
\* that arena (at block + size - 8) is bitwise equal to its header word, prev_alloc
\* bit included
C18_FreeFooterEqualsHeader ==
    \A ar \in QuietRegistryArenas : FootersMatch(ar)

\* heap_start <= heap_end <= base + capacity
EndInsideMapping(ar) ==
    ar.heap_start <= ar.heap_end /\ ar.heap_end <= ar.low + ar.size

\* the word at heap_end - 8 is the epilogue: size 0, allocated, and its prev_alloc bit
\* is the alloc bit of the last block of the heap
EpilogueInPlace(ar) ==
    /\ get_size(mem, EpilogueOf(ar.heap_end)) = 0
    /\ get_alloc(mem, EpilogueOf(ar.heap_end))
    /\ \A b \in BlocksOf(ar) :
         find_next(mem, b) = EpilogueOf(ar.heap_end)
            => get_prev_alloc(mem, EpilogueOf(ar.heap_end)) = get_alloc(mem, b)

\* no step moves the heap_end of an initialised arena down
EndNeverDecreases ==
    \A a \in Arenas :
        (phase = "run" /\ variant # "naive") => arenas'[a].heap_end >= arenas[a].heap_end

\* the arenas of the registry once arenas_init has run
RegistryArenas ==
    IF phase = "run" /\ variant # "naive" THEN {arenas[a] : a \in Arenas} ELSE {}

\* C19: for every arena in every reachable state heap_start <= heap_end <= base +
\* capacity, heap_end never decreases, and the word at heap_end - 8 is the epilogue
\* (size 0, alloc = 1, prev_alloc = the alloc bit of the last block of the heap)
C19_HeapEndAndEpilogue ==
    /\ [](\A ar \in RegistryArenas : EndInsideMapping(ar) /\ EpilogueInPlace(ar))
    /\ [][EndNeverDecreases]_vars

(* ------------------------------ round trip ----------------------------- *)

\* what the claims call the logical state of a heap: its end, its blocks in address
\* order with size and alloc bit, and the set of blocks on its free lists
LogicalHeap(hp) ==
    [heap_end |-> hp.heap_end,
     blocks |-> {<<b, get_size(hp.mem, b), get_alloc(hp.mem, b)>> :
                   b \in BlocksFrom(hp.mem, hp.heap_start, EpilogueOf(hp.heap_end),
                                    Cardinality(DOMAIN hp.mem))},
     listed |-> UNION {ListPrefix(hp.mem, hp.seglists[i], Cardinality(DOMAIN hp.mem)) :
                         i \in Lists}]

\* no thread is inside a call
Quiescent == phase = "run" /\ ~Crashed /\ \A t \in Threads : pc[t] = "idle"

\* the heap the next alloc of the arena or naive build works on: the arena that
\* get_arena picks, or the global heap, which naive_malloc initialises first if needed
NextHeap ==
    IF variant = "naive"
    THEN IF nv.heap_start = NULL THEN mm_init(NaiveHp) ELSE NaiveHp
    ELSE ArenaHp(get_arena_index)

\* the heap before that alloc
HeapBefore == IF variant = "naive" THEN NaiveHp ELSE ArenaHp(get_arena_index)

\* r = [hp, bp] is what alloc(n) returns and leaves; free(p) follows at once
ThenFreed(r) == [alloc |-> r, hp |-> _free(r.hp, r.bp)]

\* p = alloc(n); free(p) on the heap hp, with nothing in between
RoundTrip(hp, n) == ThenFreed(_malloc(hp, n))

\* the adjusted size of a request of n bytes wraps around the word modulus
Wraps(n) == round_up(Add(n, wsize), dsize) # TrueAsize(n)

\* a request that no arena can hold: the payload and its header exceed ARENA_MAX_SIZE
Oversize(n) == n + wsize > ARENA_MAX_SIZE

\* alloc(n) returned a block and left heap_end where it was
ServedInPlace(rt) == rt.alloc.bp # NULL /\ rt.alloc.hp.heap_end = HeapBefore.heap_end

Drained == Quiescent /\ live = {} /\ last.op = "free" /\ last.ptr # NULL

\* the free lists of ar hold one block, which spans the heap from heap_start to the
\* epilogue
OneFreeBlock(ar) ==
    /\ AllFree(ar) = {ar.heap_start}
    /\ ~get_alloc(mem, ar.heap_start)
    /\ get_size(mem, ar.heap_start) = ar.heap_end - ar.heap_start - wsize

\* every block of ar that is marked allocated sits in the cache of some thread
CachedOrFree(ar) ==
    \A b \in BlocksOf(ar) : get_alloc(mem, b) => \E t \in Threads : b \in CachedBlocks(t)

\* no thread cache holds a block
CachesEmpty == \A t \in Threads : cache[t].num_entries = 0

ScriptAllocated == nops = 3 /\ pc[1] = "idle" /\ ~Crashed /\ Cardinality(live) = 3

\* the scenario has run to its end: the three frees have returned
ScriptDone == nops = ScriptLength /\ pc[1] = "idle" /\ ~Crashed /\ live = {}

\* the size of the block that serves alloc(64)
ScriptBlock == TrueAsize(ScriptSize)

\* each block the scenario holds has that size
ScriptBlocksSized == \A l \in live : get_size(mem, HeaderOf(l.p)) = ScriptBlock

\* the arena whose heap the pointer p lies in, as find_arena finds it
ArenaOfPtr(p) == CHOOSE i \in Arenas : InArena(p, arenas[i])
                                          /\ \A j \in Arenas : j < i => ~InArena(p, arenas[j])

\* C22 (as the specification states it): on a freshly initialised allocator, after
\* a = alloc(64); b = alloc(64); c = alloc(64); free(a); free(c); free(b) the three
\* blocks have coalesced into one free block whose size equals the sum of the three
\* allocated block sizes.
C22_ThreeBlocksCoalesceToTheirSum ==
    ScriptDone =>
        \E ar \in AllHeaps : \E b \in AllFree(ar) :
            ~get_alloc(mem, b) /\ get_size(mem, b) = 3 * ScriptBlock

\* C22 (amended): in that scenario each alloc returns a block of 80 bytes; in the
\* naive and arena variants every heap is, after the three frees, one free block from
\* heap_start to the epilogue, larger than the three blocks together because it
\* includes the free remainder of the heap; in the arena and arena+cache variants
\* consecutive allocs are served by different arenas; and in the arena+cache
\* variant the three blocks end in the caller's cache, still marked allocated.
C22_ThreeBlocksCoalesceWithTheirHeap ==
    /\ ScriptAllocated => ScriptBlocksSized
    /\ (ScriptAllocated /\ variant # "naive") =>
          \A x, y \in live : y.id = x.id + 1 => ArenaOfPtr(x.p) # ArenaOfPtr(y.p)
    /\ (ScriptDone /\ variant # "cached") =>
          \A ar \in AllHeaps :
              OneFreeBlock(ar) /\ get_size(mem, ar.heap_start) > 3 * ScriptBlock
    /\ (ScriptDone /\ variant = "cached") =>
          /\ Cardinality(CachedBlocks(1)) = 3
          /\ \A b \in CachedBlocks(1) : get_alloc(mem, b) /\ get_size(mem, b) = ScriptBlock

\* the scenario has run to its end in the naive build, where a, b and c were adjacent
\* and the free of b merged both of its neighbours
C22_Witness ==
    /\ ScriptDone /\ variant = "naive"
    /\ last.op = "free" /\ last.ptr = header_to_payload(nv.heap_start + ScriptBlock)
    /\ OneFreeBlock(NaiveArena)

(* --------------------------- cache round trip -------------------------- *)

\* the cache of thread t is initialised and empty
CacheEmpty(t) == cache[t] = cache_init(ZeroCache)

\* the heap of the arena that get_arena picks k calls from now, in the memory m
HeapAhead(k, m) == [ArenaHp((last_used + k) % max_arenas) EXCEPT !.mem = m]

\* arena_cached_malloc(n) by a thread whose cache is c, as the k-th call from now that
\* reaches get_arena, in the memory m: returns [c, bp, hit, mem]
CachedAlloc(c, m, n, k) ==
    LET q == cache_query(c, m, n)
        r == _malloc(HeapAhead(k, m), n)
    IN  IF q.ret # NULL
        THEN [c |-> q.c, bp |-> header_to_payload(q.ret), hit |-> TRUE, mem |-> m]
        ELSE [c |-> c, bp |-> r.bp, hit |-> FALSE, mem |-> r.hp.mem]

\* p = alloc(n); free(p); q = alloc(n) by thread t, whose cache is empty: the first
\* alloc goes to an arena; the free is the cache_add of arena_cached_free; returns
\* the two pointers, the size of the block of p, whether the cache took the block and
\* whether the second alloc was served from the cache
CacheTrip(t, n) ==
    LET first == CachedAlloc(cache[t], mem, n, 0)
        block == payload_to_header(first.bp)
        a == cache_add(first.c, first.mem, block)
        second == CachedAlloc(a.c, first.mem, n, 1)
    IN  [p |-> first.bp, size |-> get_size(first.mem, block), added |-> a.ret,
         q |-> second.bp, hit |-> second.hit]

\* C23: in the arena+cache variant, a single thread with an initialised, empty cache
\* that runs p = alloc(n); free(p); q = alloc(n), with n >= 1 and a block of at most
\* CACHE_MAX_SIZE bytes, gets q = p: the free puts the block into the cache and the
\* second alloc takes it out again.
C23_CacheRoundTrip ==
    (Quiescent /\ variant = "cached") =>
        \A t \in Threads : \A n \in Sizes \ {0} :
            (CacheEmpty(t) /\ CacheTrip(t, n).p # NULL
                           /\ CacheTrip(t, n).size <= CACHE_MAX_SIZE)
               => /\ CacheTrip(t, n).added
                  /\ CacheTrip(t, n).hit
                  /\ CacheTrip(t, n).q = CacheTrip(t, n).p

(* ------------------------- cache insert and query ---------------------- *)

\* the slots from front up whose block has at least size bytes
Fits(c, m, size) ==
    {i \in Slots : i >= c.front /\ c.elems[i] # NULL /\ get_size(m, c.elems[i]) >= size}

\* the block in the lowest of these slots, or none
FirstFit(c, m, size) ==
    IF Fits(c, m, size) = {} THEN NULL
    ELSE c.elems[CHOOSE i \in Fits(c, m, size) : \A j \in Fits(c, m, size) : i <= j]

\* the slots of c with block taken out
SlotsWithout(c, block) == [i \in Slots |-> IF c.elems[i] = block THEN NULL ELSE c.elems[i]]

\* this step is a cache_query(size_of(b)) that immediately follows a cache_add(b)
\* which returned true
QueryAfterAdd ==
    /\ last.op = "add" /\ last.hit
    /\ last'.op = "query" /\ last'.size = last.size

\* C24 (as the specification states it): after a cache_add(b) that returns true, an
\* immediately following cache_query(size_of(b)) returns b itself, and b is the only
\* block removed from the cache.
C24_QueryAfterAddReturnsBlock ==
    [][QueryAfterAdd =>
          /\ last'.ret = last.ptr
          /\ cache'[1].elems = SlotsWithout(cache[1], last.ptr)]_vars

\* C24 (amended): after a cache_add(b) that returns true, an immediately following
\* cache_query(size_of(b)) returns the block in the lowest occupied slot whose size
\* is at least size_of(b), and removes that block only; it is b itself exactly when
\* no block in a lower slot than b is that large.
C24_QueryAfterAddReturnsFirstFit ==
    [][QueryAfterAdd =>
          /\ last'.ret # NULL
          /\ last'.ret = FirstFit(cache[1], mem, last.size)
          /\ cache'[1].elems = SlotsWithout(cache[1], last'.ret)
          /\ cache'[1].num_entries = cache[1].num_entries - 1
          /\ (last'.ret = last.ptr) <=>
                 \A i \in Slots :
                     (cache[1].elems[i] # NULL /\ get_size(mem, cache[1].elems[i]) >= last.size)
                        => \A j \in Slots : cache[1].elems[j] = last.ptr => i >= j]_vars

\* a cache_query(size_of(b)) right after the cache_add(b) has returned an older block
\* and has left b in the cache
C24_Witness ==
    /\ pc[1] = "idle" /\ last.op = "query" /\ last.ptr # NULL
    /\ last.size = get_size(mem, last.ptr)
    /\ last.ret # NULL /\ last.ret # last.ptr
    /\ last.ptr \in {cache[1].elems[i] : i \in Slots}

\* C25: a cache_add(b) that returns false (the cache already holds CACHE_MAX_ENTRIES
\* blocks, or total_size + size(b) would exceed CACHE_MAX_SIZE) leaves the cache
\* unchanged: the slots, num_entries, total_size and front all keep their values;
\* and cache_add returns false in these two cases only.
C25_FailedAddLeavesCacheUnchanged ==
    [][last'.op = "add" =>
          /\ ~last'.hit => cache' = cache
          /\ ~last'.hit <=> \/ cache[1].num_entries = CACHE_MAX_ENTRIES
                            \/ cache[1].total_size + last'.size > CACHE_MAX_SIZE]_vars

\* a cache_add has just been refused by a cache that holds CACHE_MAX_ENTRIES blocks
\* of less than CACHE_MAX_SIZE bytes together
C25_Witness ==
    /\ pc[1] = "idle" /\ last.op = "add" /\ ~last.hit
    /\ cache[1].num_entries = CACHE_MAX_ENTRIES
    /\ cache[1].total_size + last.size <= CACHE_MAX_SIZE

\* a cache_add has just been refused for its size by a cache with empty slots
C25_RefusedForSize ==
    /\ pc[1] = "idle" /\ last.op = "add" /\ ~last.hit
    /\ cache[1].num_entries < CACHE_MAX_ENTRIES

(* ----------------------------- eviction order -------------------------- *)

\* the index of the lowest occupied slot, or CACHE_MAX_ENTRIES if no slot is occupied
LowestOccupied(elems) ==
    IF \A i \in Slots : elems[i] = NULL THEN CACHE_MAX_ENTRIES
    ELSE CHOOSE i \in Slots : elems[i] # NULL /\ \A j \in Slots : j < i => elems[j] = NULL

\* the cached block whose cache_add is the earliest
Oldest == payload_to_header((CHOOSE l \in live : l.id = 1).p)

\* C26: cache_evict always removes and returns the block in the lowest-indexed
\* occupied slot (the current front) and advances front to the next occupied slot;
\* starting from an empty cache filled by k <= 8 successful adds with no query in
\* between, k successive evicts return the blocks in the order they were added.
C26_EvictionOrder ==
    [][last'.op = "evict" =>
          /\ last'.ret # NULL
          /\ last'.ret = cache[1].elems[LowestOccupied(cache[1].elems)]
          /\ cache[1].front = LowestOccupied(cache[1].elems)
          /\ cache'[1].elems = SlotsWithout(cache[1], last'.ret)
          /\ cache'[1].front = LowestOccupied(cache'[1].elems)
          /\ phase \in {"fill", "drain"} => last'.ret = Oldest]_vars

\* a cache filled by CACHE_MAX_ENTRIES adds has given back all but the last of its
\* blocks to successive evicts
C26_Witness ==
    /\ pc[1] = "idle" /\ phase = "drain" /\ last.op = "evict"
    /\ cache[1].num_entries = 1 /\ cache[1].elems[CACHE_MAX_ENTRIES - 1] # NULL

(* ------------------------------ cache shape ---------------------------- *)

RECURSIVE SizeSum(_, _)
\* the sum of the sizes of the blocks of the set bs, read from the memory m
SizeSum(m, bs) ==
    IF bs = {} THEN 0
    ELSE LET b == CHOOSE x \in bs : TRUE IN get_size(m, b) + SizeSum(m, bs \ {b})

\* the occupied slots of c
Occupied(c) == {i \in Slots : c.elems[i] # NULL}

\* the counters of c describe its slots, and no block sits in two slots
CacheShape(c) ==
    /\ c.num_entries = Cardinality(Occupied(c))
    /\ c.num_entries <= CACHE_MAX_ENTRIES
    /\ \A i, j \in Occupied(c) : i # j => c.elems[i] # c.elems[j]
    /\ c.total_size = SizeSum(mem, {c.elems[i] : i \in Occupied(c)})
    /\ c.total_size <= CACHE_MAX_SIZE
    /\ c.front = LowestOccupied(c.elems)

\* the thread caches that cache_init has initialised
InitialisedCaches == {t \in Threads : pc[t] # "start"}

C27_Witness ==
    /\ variant = "cached" /\ pc[1] = "idle"
    /\ cache[1].front >= 2 /\ cache[1].num_entries >= 2
    /\ \E i \in Slots : i > cache[1].front /\ cache[1].elems[i] = NULL
                          /\ \E j \in Slots : j > i /\ cache[1].elems[j] # NULL

(* ------------------------------ cached blocks -------------------------- *)

\* the block at header b is, for the heap, an allocated block: its header says
\* allocated, no free list of any arena holds it, the walk over the blocks of some
\* arena still meets it (no coalesce has absorbed it), and the header behind it says
\* that its predecessor is allocated
KeptAllocated(b) ==
    /\ get_alloc(mem, b)
    /\ \A a \in Arenas : b \notin AllFree(arenas[a])
    /\ \E a \in Arenas : b \in BlocksOf(arenas[a])
    /\ get_prev_alloc(mem, find_next(mem, b))

\* C28: every block held in any thread cache keeps alloc = 1 in its header, is in no
\* arena free list, is never absorbed by a coalesce of a neighbouring block, and the
\* block following it keeps prev_alloc = 1, for as long as it stays cached and under
\* any concurrent activity of other threads on its arena.
C28_CachedBlocksStayAllocated ==
    variant = "cached" => \A t \in Threads : \A b \in CachedBlocks(t) : KeptAllocated(b)

(* ------------------------ where a freed block ends up ------------------ *)

\* the free block of arena a that holds address b is a block of a's heap, is on one
\* of a's free lists and has no free neighbour
FreeAndListedIn(b, a) ==
    /\ OwnedBy(b, a)
    /\ \E f \in AllFree(arenas[a]) \cap BlocksOf(arenas[a]) :
         /\ f <= b /\ b < f + get_size(mem, f)
         /\ ~get_alloc(mem, f)
         /\ get_prev_alloc(mem, f)
         /\ get_alloc(mem, find_next(mem, f))

\* the block of p is in exactly one of the two places, and marked allocated if it is
\* in the cache
InOnePlace(t, p) ==
    LET b == HeaderOf(p)
        cached == b \in CachedBlocks(t)
        listed == \E a \in Arenas : FreeAndListedIn(b, a)
    IN  /\ cached # listed
        /\ cached => get_alloc(mem, b)

\* this step is the return of arena_cached_free to thread t: from its first cache_add,
\* or from release_arena at the end of a truly_free or after the second cache_add
CachedFreeReturns(t) ==
    /\ variant = "cached" /\ crash' = crash
    /\ last'.op = "free" /\ last'.t = t
    /\ \/ nops' # nops /\ pc' = pc
       \/ pc[t] = "release" /\ pc'[t] = "idle"

\* thread t has run truly_free on the block it evicted and still holds the arena
EvictedFreed(t) ==
    pc[t] = "release" /\ loc[t].op = "truly" /\ loc[t].after = "retry"

\* C29: in the arena+cache variant, when arena_cached_free(p) returns, p's block is in
\* exactly one of two places: a slot of the calling thread's cache (still marked
\* allocated), or free, coalesced and listed in its owning arena; and a block evicted
\* during the call has been freed into its own owning arena (found by its address),
\* so no block is lost or freed into the wrong arena.
C29_FreedBlockCachedOrListed ==
    /\ [][\A t \in Threads : CachedFreeReturns(t) => InOnePlace(t, last.ptr)']_vars
    /\ [](\A t \in Threads : EvictedFreed(t) => FreeAndListedIn(loc[t].addr, loc[t].arena))

\* arena_cached_free(p) has evicted a block for p, whose block is too large for the
\* cache and lies in another arena, and truly_free has put the evicted block, free and
\* coalesced, on a list of the arena that holds its address
C29_Witness ==
    \E t \in Threads :
        /\ variant = "cached" /\ EvictedFreed(t)
        /\ FreeAndListedIn(loc[t].addr, loc[t].arena)
        /\ ~OwnedBy(HeaderOf(loc[t].ptr), loc[t].arena)
        /\ get_alloc(mem, HeaderOf(loc[t].ptr))
        /\ get_size(mem, HeaderOf(loc[t].ptr)) > CACHE_MAX_SIZE

(* ---------------------------- the eviction test ------------------------ *)

\* in this step arena_cached_free of thread t, refused by cache_add, takes a block out
\* of the cache and calls truly_free on it
Evicts(t) ==
    /\ pc[t] = "idle" /\ pc'[t] = "find"
    /\ loc'[t].op = "truly" /\ loc'[t].after = "retry"

\* in this step arena_cached_free of thread t, refused by cache_add, skips the
\* eviction and calls truly_free on the incoming block
Bypasses(t) ==
    /\ pc[t] = "idle" /\ pc'[t] = "find"
    /\ loc'[t].op = "truly" /\ loc'[t].after = "done"

\* the first cache_add of an arena_cached_free of thread t fails in this step
FailedInsert(t) == variant = "cached" /\ (Evicts(t) \/ Bypasses(t))

\* an arena_cached_free fails the assert of cache_evict in this step
EvictAsserts ==
    /\ variant = "cached" /\ ~Crashed /\ nops' # nops
    /\ crash'.why = "assert" /\ crash'.op = "free"

C31_EvictOnlyFromNonEmptyCache == [][~EvictAsserts]_vars

(* -------------------------------- dispatch ----------------------------- *)

\* this step is a get_arena: the fetch-and-add on the dispatch counter
Dispatches == last_used' # last_used

\* k mod n for the number k of increments that have brought the counter to c: k is c
\* for c >= 0 and 2^32 + c once the counter has wrapped
DispatchNumberMod(c, n) ==
    IF c >= 0 THEN c % n
    ELSE (((65536 % n) * (65536 % n)) + (c % n)) % n

RECURSIVE CounterAfter(_, _)
\* the counter j increments after it was c
CounterAfter(c, j) == IF j = 0 THEN c ELSE CounterAfter(FetchAdd(c), j - 1)

\* the arenas the n dispatches from counter value c on select
Window(c, n) == {CRem(CounterAfter(c, j), n) : j \in 0 .. n - 1}

\* C32: dispatch is round-robin under any interleaving: the k-th fetch-and-add on the
\* dispatch counter selects arena k mod N, no two get_arena calls observe the same
\* counter value, and any N consecutive dispatches select every arena exactly once.
C32_DispatchIsRoundRobin ==
    [][Dispatches =>
          /\ get_arena_index = DispatchNumberMod(last_used, max_arenas)
          /\ last_used' = FetchAdd(last_used)
          /\ Window(last_used, max_arenas) = 0 .. max_arenas - 1]_vars

\* C33: the arena index computed by get_arena is in 0..N-1 for every value the 32-bit
\* signed dispatch counter can hold, also after it has wrapped to negative values;
\* get_arena never indexes outside the arena array.
C33_ArenaIndexInRange ==
    [][Dispatches => get_arena_index \in 0 .. max_arenas - 1]_vars

(* --------------------------------- find_fit ---------------------------- *)

\* thread t holds the lock of its heap and is about to run _malloc with a size > 0
AboutToMalloc(t) ==
    /\ pc[t] \in {"body", "n_body"} /\ loc[t].op = "malloc" /\ loc[t].size # 0

\* the heap that _malloc of thread t works on
HeapOf(t) == IF pc[t] = "n_body" THEN NaiveHp ELSE ArenaHp(loc[t].arena)

\* the adjusted size _malloc of thread t computes
AsizeOf(t) == round_up(Add(loc[t].size, wsize), dsize)

\* what find_fit returns to _malloc of thread t
FitOf(t) ==
    IF pc[t] = "n_body" THEN naive_find_fit(HeapOf(t), AsizeOf(t))
    ELSE find_fit(HeapOf(t), AsizeOf(t))

\* the indices of the free lists of hp that hold block
ListsHolding(hp, block) ==
    {i \in Lists : block \in ListPrefix(hp.mem, hp.seglists[i], Cardinality(DOMAIN hp.mem))}

\* C34: find_fit probes only the free lists c_min and c_min + 1, where c_min is the
\* size class of asize (capped at 14): it never returns a block that sits in a list of
\* index greater than c_min + 1, in the naive and the single-threaded allocator as
\* well as in the arena variants.
C34_FindFitProbesTwoLists ==
    \A t \in Threads :
        AboutToMalloc(t) /\ FitOf(t) # NULL =>
            \A i \in ListsHolding(HeapOf(t), FitOf(t)) : i <= MinListInd(AsizeOf(t)) + 1

\* the same for the arena variants alone
ArenaFindFitProbesTwoLists == variant # "naive" => C34_FindFitProbesTwoLists

\* an arena find_fit is about to return a block of list c_min + 1
ArenaFitInSecondList ==
    \E t \in Threads :
        /\ variant # "naive" /\ AboutToMalloc(t) /\ FitOf(t) # NULL
        /\ MinListInd(AsizeOf(t)) + 1 \in ListsHolding(HeapOf(t), FitOf(t))

(* -------------------------------- search_list -------------------------- *)

RECURSIVE ListOrder(_, _, _)
\* the first k blocks of the free list that starts at block, in list order
ListOrder(m, block, k) ==
    IF block = NULL \/ k = 0 THEN << >>
    ELSE <<block>> \o ListOrder(m, Rd(m, Add(block, OffNext)), k - 1)

\* the blocks search_list may look at
Visited(m, head) == ListOrder(m, head, MAX_SEGLIST_SEARCH)

\* the places among them whose block has at least asize bytes
FittingPlaces(m, head, asize) ==
    {i \in DOMAIN Visited(m, head) : get_size(m, Visited(m, head)[i]) >= asize}

\* the first place among them whose block is as small as any that fits
BestPlace(m, head, asize) ==
    CHOOSE i \in FittingPlaces(m, head, asize) :
        \A j \in FittingPlaces(m, head, asize) :
            LET si == get_size(m, Visited(m, head)[i])
                sj == get_size(m, Visited(m, head)[j])
            IN  si < sj \/ (si = sj /\ i <= j)

\* C35: search_list(head, asize) visits at most the first 15 blocks of the list and
\* returns, among the visited blocks with size >= asize, one whose size is minimal, the
\* first such block in list order; it returns none exactly when none of the first 15
\* blocks has size >= asize, even if a later block would fit.
C35_SearchListIsBoundedBestFit ==
    [][last'.op = "search" =>
          LET head == arenas[0].seglists[1]
              asize == last'.size
          IN  IF FittingPlaces(mem, head, asize) = {}
              THEN last'.ret = NULL
              ELSE last'.ret = Visited(mem, head)[BestPlace(mem, head, asize)]]_vars

\* search_list has returned none on the full list although the 16th or 17th block of
\* the list would fit
C35_Witness ==
    /\ phase = "list" /\ nops = ListLength
    /\ last.op = "search" /\ last.ret = NULL
    /\ Len(ListOrder(mem, arenas[0].seglists[1], ListLength)) = ListLength
    /\ \E i \in MAX_SEGLIST_SEARCH + 1 .. ListLength :
         get_size(mem, ListOrder(mem, arenas[0].seglists[1], ListLength)[i]) >= last.size

\* search_list has passed over a larger block that fits and returned a later, smaller one
SearchSkipsLargerFit ==
    /\ phase = "list" /\ nops = ListLength /\ last.op = "search" /\ last.ret # NULL
    /\ \E i \in DOMAIN Visited(mem, last.ptr) :
         /\ get_size(mem, Visited(mem, last.ptr)[i]) > get_size(mem, last.ret)
         /\ \E j \in DOMAIN Visited(mem, last.ptr) : j > i /\ Visited(mem, last.ptr)[j] = last.ret
         /\ get_size(mem, last.ret) > last.size

(* ------------------------------- size classes -------------------------- *)

\* the largest k with 2^k <= n, for n >= 1
FloorLog2(n) == CHOOSE k \in 0 .. 29 : Pow2(k) <= n /\ n < Pow2(k + 1)

\* the class of block size s as the specification gives it
ClassOf(s) ==
    IF s \div 64 = 0 THEN 0
    ELSE IF FloorLog2(s \div 64) + 1 > 14 THEN 14 ELSE FloorLog2(s \div 64) + 1

\* C36: for every block size s (a multiple of 16, at least 32) find_list_for_block
\* returns min(14, floor(log2(s >> 6)) + 1) when s >> 6 is not 0 and 0 otherwise, the
\* result is in 0..14, and the c_min that find_fit computes from asize is the index
\* that find_list_for_block gives for a block of that size.
C36_SizeClassIsCappedLog ==
    last.op \in {"class", "c_min"} =>
        /\ last.size % dsize = 0 /\ last.size >= min_block_size
        /\ last.ret = ClassOf(last.size)
        /\ last.ret \in 0 .. MAXLISTS - 1
        /\ last.ret = find_list_for_block(mem, last.ptr)
        /\ last.ret = MinListInd(last.size)

\* find_fit has computed c_min for a size whose logarithm is beyond the cap
C36_Witness ==
    /\ last.op = "c_min" /\ last.ret = MAXLISTS - 1
    /\ FloorLog2(last.size \div 64) + 1 > MAXLISTS - 1

(* ------------------------------ an exhausted arena --------------------- *)

\* the mapping of arena a has no room for one more chunk
Exhausted(a) == arenas[a].low # NULL /\ ~RoomToExtend(arenas[a], CHUNK_SIZE)

\* thread t runs the locked part of its call in this step
RunsBody(t) ==
    /\ pc[t] = "body"
    /\ \/ pc'[t] = "release"
       \/ crash' # crash /\ crash'.op = CallOp(loc[t]) /\ crash'.arg = CallArg(loc[t])

\* _malloc of thread t finds no fit and its arena cannot be extended for the request
CannotServe(t) ==
    /\ AboutToMalloc(t) /\ pc[t] = "body"
    /\ FitOf(t) = NULL
    /\ ~RoomToExtend(arenas[loc[t].arena], AsizeOf(t))

\* _malloc of thread t has a fit within reach of find_fit, or room to extend
CanServe(t) ==
    /\ AboutToMalloc(t) /\ pc[t] = "body"
    /\ FitOf(t) # NULL \/ RoomToExtend(arenas[loc[t].arena], AsizeOf(t))

\* the block that the free of thread t gives back
FreedBlockOf(t) == IF loc[t].op = "free" THEN HeaderOf(loc[t].ptr) ELSE loc[t].addr

\* C37: when an arena cannot be extended, alloc returns none and leaves that arena's
\* heap_end, headers, footers, sentinels and free lists as they were, and its mutex is
\* released; afterwards frees of blocks of the exhausted arena succeed and allocs
\* dispatched to the other arenas are still served.
C37_ExhaustedArenaFailsCleanly ==
    [][\A t \in Threads :
          /\ RunsBody(t) /\ CannotServe(t) =>
                /\ pc'[t] = "release" /\ loc'[t].ret = NULL
                /\ arenas' = arenas /\ mem' = mem
          /\ pc[t] = "release" /\ loc[t].op = "malloc" /\ loc[t].ret = NULL /\ pc'[t] = "idle" =>
                /\ lock'[loc[t].arena] = NoThread
                /\ last'.op = "alloc" /\ last'.ret = NULL
          /\ RunsBody(t) /\ loc[t].op \in {"free", "truly"} /\ Exhausted(loc[t].arena) =>
                /\ crash' = crash
                /\ FreeAndListedIn(FreedBlockOf(t), loc[t].arena)'
          /\ RunsBody(t) /\ CanServe(t) /\ (\E a \in Arenas \ {loc[t].arena} : Exhausted(a)) =>
                /\ crash' = crash
                /\ loc'[t].ret # NULL]_vars

\* an alloc has just come back with none from an arena that is full to the end of its
\* mapping, and whose large block the caller still holds; no mutex is held
C37_Witness ==
    /\ ~Crashed /\ last.op = "alloc" /\ last.ret = NULL /\ last.size # 0
    /\ \A a \in Arenas : lock[a] = NoThread
    /\ pc[last.t] = "idle"
    /\ \E a \in Arenas :
         /\ Exhausted(a) /\ arenas[a].heap_end = arenas[a].low + arenas[a].size
         /\ last_used % NumArenas = (a + 1) % NumArenas
         /\ \E l \in live : OwnedBy(HeaderOf(l.p), a)

(* ------------------------------ the fast paths ------------------------- *)

\* thread t calls arena_cached_malloc(size) in this step
CachedAllocCall(t, size) ==
    /\ variant = "cached" /\ pc[t] = "idle" /\ nops' # nops /\ crash' = crash
    /\ \/ pc' = pc /\ last'.op = "alloc" /\ last'.t = t /\ last'.size = size
       \/ pc'[t] \in {"lock", "wild"} /\ loc'[t].op = "malloc" /\ loc'[t].size = size

\* thread t calls arena_cached_free(ptr) in this step
CachedFreeCall(t, ptr) ==
    /\ variant = "cached" /\ pc[t] = "idle" /\ nops' # nops /\ crash' = crash
    /\ \/ pc' = pc /\ last'.op = "free" /\ last'.t = t /\ last'.ptr = ptr
       \/ pc'[t] = "find" /\ loc'[t].op = "truly" /\ loc'[t].ptr = ptr

\* cache_query of thread t finds a block for a request of size bytes
QueryHits(t, size) == cache_query(cache[t], mem, size).ret # NULL

\* the first cache_add of arena_cached_free(ptr) of thread t takes the block
AddSucceeds(t, ptr) ==
    /\ cache[t].num_entries = CACHE_MAX_ENTRIES \/ Mapped(payload_to_header(ptr))
    /\ cache_add(cache[t], mem, payload_to_header(ptr)).ret

\* the call of thread t has come back within the step, no mutex was taken, and no
\* arena, no word of a heap and not the dispatch counter has changed
FastPath(t) ==
    /\ pc'[t] = "idle" /\ lock' = lock
    /\ arenas' = arenas /\ mem' = mem /\ last_used' = last_used

\* C38: a cache hit in arena_cached_malloc completes without acquiring any arena mutex
\* and leaves every arena's heap, free lists and heap_end and the dispatch counter
\* unchanged; likewise an arena_cached_free whose first cache_add succeeds acquires no
\* mutex and changes no arena state.
C38_CacheFastPathsTouchNoArena ==
    [][\A t \in Threads :
          /\ \A size \in Sizes :
                CachedAllocCall(t, size) /\ QueryHits(t, size) =>
                    /\ FastPath(t)
                    /\ last'.ret = header_to_payload(cache_query(cache[t], mem, size).ret)
          /\ \A ptr \in FreeArgs :
                CachedFreeCall(t, ptr) /\ AddSucceeds(t, ptr) =>
                    /\ FastPath(t)
                    /\ payload_to_header(ptr) \in CachedBlocks(t)']_vars

\* an alloc has just been served from the caller's cache while the other thread holds
\* an arena mutex inside its own call, and the served block went into the cache by an
\* earlier free of the same thread
C38_Witness ==
    /\ variant = "cached" /\ ~Crashed
    /\ last.op = "alloc" /\ last.hit /\ last.ret # NULL
    /\ pc[last.t] = "idle"
    /\ \A a \in Arenas : lock[a] # last.t
    /\ \E u \in Threads \ {last.t} : \E a \in Arenas : lock[a] = u

(* ------------------------------ one slot per block --------------------- *)

\* the occupied slots of all thread caches
OccupiedSlots == {<<t, i>> \in Threads \X Slots : cache[t].elems[i] # NULL}

\* the block in slot s
SlotBlock(s) == cache[s[1]].elems[s[2]]

\* C39: under valid use, a block occupies at most one cache slot over all thread
\* caches at any time: no block is stored twice in one cache or in the caches of two
\* threads, under any interleaving of cached alloc and free calls, frees by a thread
\* other than the allocating one included.
C39_BlockInAtMostOneSlot ==
    variant = "cached" =>
        \A s1, s2 \in OccupiedSlots : SlotBlock(s1) = SlotBlock(s2) => s1 = s2

(* ------------------------- when the heap is extended ------------------- *)

\* _malloc of thread t, in an arena build, runs to its end in this step
ArenaMallocRuns(t) ==
    /\ variant # "naive" /\ AboutToMalloc(t)
    /\ pc[t] = "body" /\ pc'[t] = "release"

\* this step moves the heap_end of the arena of thread t
MovesHeapEnd(t) == arenas'[loc[t].arena].heap_end # arenas[loc[t].arena].heap_end

\* some free list of the arena of thread t holds a block of at least asize bytes
HoldsFit(t) ==
    \E b \in AllFree(arenas[loc[t].arena]) : get_size(mem, b) >= AsizeOf(t)

\* C40 (as the specification states it): in the arena variants alloc advances an
\* arena's heap_end only when that arena holds no free block of size >= asize; when
\* some free list of the chosen arena contains a fitting block, the request is served
\* from the free lists and the heap is not extended.
C40_ExtendsOnlyWithoutFreeFit ==
    [][\A t \in Threads : (ArenaMallocRuns(t) /\ HoldsFit(t)) => ~MovesHeapEnd(t)]_vars

\* C40 (amended): in the arena variants alloc serves the request from the block that
\* find_fit returns, leaving heap_end where it is, and moves heap_end only when
\* find_fit, which looks at no more than MAX_SEGLIST_SEARCH blocks of the lists c_min
\* and c_min + 1, returns none; a fitting free block out of its reach is not used.
C40_ExtendsOnlyWhenFindFitFails ==
    [][\A t \in Threads :
          ArenaMallocRuns(t) =>
              /\ FitOf(t) # NULL =>
                    /\ ~MovesHeapEnd(t)
                    /\ loc'[t].ret = header_to_payload(FitOf(t))
              /\ MovesHeapEnd(t) => FitOf(t) = NULL
              /\ (FitOf(t) = NULL /\ RoomToExtend(arenas[loc[t].arena], AsizeOf(t))) =>
                    arenas'[loc[t].arena].heap_end =
                        arenas[loc[t].arena].heap_end + max(AsizeOf(t), CHUNK_SIZE)]_vars

\* the first call of a run, a small alloc, has been served at heap_start of a fresh
\* arena whose heap is now two chunks long: the heap was extended although the chunk
\* that arenas_init had put on a free list would have held the request
C40_Witness ==
    \E t \in Threads :
        /\ variant # "naive" /\ nops = 1
        /\ pc[t] = "release" /\ loc[t].op = "malloc"
        /\ AsizeOf(t) > 0 /\ AsizeOf(t) <= CHUNK_SIZE
        /\ loc[t].ret = header_to_payload(arenas[loc[t].arena].heap_start)
        /\ arenas[loc[t].arena].heap_end =
               arenas[loc[t].arena].heap_start + 2 * CHUNK_SIZE + wsize

====
